---- MODULE Spec2Model ----
(***************************************************************************)
(* Berlin-App: the scoring and aggregation pipeline of berlin_labels.      *)
(*                                                                         *)
(* A Python str is modelled as a sequence of characters; a character is a  *)
(* one-element name: "a", "A", "1", " ", "-", and for the non-ASCII        *)
(* letters "a_uml" (a-umlaut, U+00E4), "A_uml" (U+00C4), "o_uml", "O_uml", *)
(* "u_uml", "U_uml", "eszett" (sharp s, U+00DF), "Eszett_cap" (capital     *)
(* sharp s, U+1E9E), "e_acute" (U+00E9) and "E_acute" (U+00C9).            *)
(***************************************************************************)
EXTENDS Integers, Sequences, FiniteSets, TLC

VARIABLES
    pc,        \* position of the run: which function has been applied
    name,      \* argument of canon_nh: [kind, s]
    key,       \* canon_nh(name)
    rekey,     \* canon_nh(key)
    cuisines,  \* argument of tokenize_cuisines (a str)
    toks,      \* tokenize_cuisines(cuisines)
    series,    \* argument of percentile_score and tercile_labels (floats)
    scores,    \* percentile_score(series) of labels_mobility / labels_venues
    app_scores, \* percentile_score(series) of app.py
    terciles,  \* tercile_labels(series, labels)
    gdf_nei,   \* neighborhood polygons: district_id, area_km2, area_eff_km2
    parks_nei, \* per-neighborhood parks table: district_id, green_area_km2, area_km2
    play_nei,  \* per-neighborhood playgrounds table: district_id, n_playgrounds, area_eff_km2
    band_out,  \* the table a band-labelling function returned
    stops_nei, \* the mobility labels of the neighborhoods: the stop counts
    feat_nei,  \* the venue features of the neighborhoods
    area_nei,  \* the key and area_eff_km2 columns of the polygons
    gdf_neighborhoods, \* polygons given to compute_mobility_labels
    df_ubahn,  \* heavy-rail points: lon, lat
    df_bus_tram, \* surface points: lon, lat
    mob_out,   \* the table compute_mobility_labels returned
    dist_out,  \* what aggregate_mobility_to_district returned
    gdf_out,   \* the polygons compute_area_km2 or dissolve_by_district returned
    parks_csv, \* park records: district_id, neighborhood, size_sqm
    playgrounds_csv, \* green-space records: district_id, neighborhood, green_area_type
    venues_csv, \* venue records: district_id, neighborhood, cuisine
    pipeline_out, \* the tables of run_all_preprocessing
    nei_wide,  \* app: the metric columns of the neighborhoods
    dist_wide, \* app: the metric columns of the districts
    level,     \* app: the level radio
    chk,       \* app: the checkboxes of the level's features
    slider,    \* app: the importance sliders of the level's features
    nei_result, \* app: st.session_state["nei_result"]
    dist_result, \* app: st.session_state["dist_result"]
    pressed_weights, \* app: per level, the weights read when Show was last pressed
    arg_columns, \* the columns of the first and of the second table passed
    raised,    \* the exception the function called raised, if any
    summary_csv, \* the file at summary_path
    new_df,    \* the table last passed to update_summary
    calls,     \* the number of calls of update_summary so far
    points_df, \* the table passed to to_points_gdf
    points_out, \* what to_points_gdf returned or raised
    venues_features, \* the features table passed to compute_vibrancy_scores
    nei_area,  \* the area table passed to compute_vibrancy_scores
    vibrancy_out \* the table compute_vibrancy_scores returned

textVars == <<name, key, rekey, cuisines, toks>>
scoreVars == <<series, scores, app_scores, terciles>>
bandVars == <<gdf_nei, parks_nei, play_nei, band_out, stops_nei, feat_nei, area_nei>>
mobVars == <<gdf_neighborhoods, df_ubahn, df_bus_tram, mob_out, dist_out, gdf_out>>
pipelineVars == <<parks_csv, playgrounds_csv, venues_csv, pipeline_out>>
appVars ==
    <<nei_wide, dist_wide, level, chk, slider, nei_result, dist_result, pressed_weights>>
schemaVars == <<arg_columns, raised>>
summaryVars == <<summary_csv, new_df, calls>>
pointsVars == <<points_df, points_out>>
vibrancyVars == <<venues_features, nei_area, vibrancy_out>>
vars == <<pc, textVars, scoreVars, bandVars, mobVars, pipelineVars, appVars, schemaVars, summaryVars, pointsVars, vibrancyVars>>

(***************************************************************************)
(* Bounds of the model                                                     *)
(***************************************************************************)
MaxNameLen == 3
MaxParts == 2
MaxSeries == 4
MaxVal == 3
MaxNei == 2
MaxAmount == 6
MaxPolys == 2
MaxPts == 2

(***************************************************************************)
(* Characters and the str methods canon_nh uses                            *)
(***************************************************************************)
AsciiLowerSeq ==
    <<"a","b","c","d","e","f","g","h","i","j","k","l","m",
      "n","o","p","q","r","s","t","u","v","w","x","y","z">>
AsciiUpperSeq ==
    <<"A","B","C","D","E","F","G","H","I","J","K","L","M",
      "N","O","P","Q","R","S","T","U","V","W","X","Y","Z">>
Range(f) == { f[i] : i \in DOMAIN f }
AsciiLower == Range(AsciiLowerSeq)
AsciiUpper == Range(AsciiUpperSeq)
AsciiDigit == {"0","1","2","3","4","5","6","7","8","9"}
Whitespace == {" "}
Punctuation == {"-", ";", "."}
\* letters outside ASCII: alphanumeric for str.isalnum
NonAsciiLowerLetter == {"a_uml", "o_uml", "u_uml", "eszett", "e_acute"}
NonAsciiUpperLetter == {"A_uml", "O_uml", "U_uml", "Eszett_cap", "E_acute"}

\* str.isalnum of one character (Unicode letters and digits)
isalnum(ch) ==
    ch \in AsciiLower \cup AsciiUpper \cup AsciiDigit
           \cup NonAsciiLowerLetter \cup NonAsciiUpperLetter

\* str.lower of one character
lower_ch(ch) ==
    IF ch \in AsciiUpper
    THEN AsciiLowerSeq[CHOOSE i \in DOMAIN AsciiUpperSeq : AsciiUpperSeq[i] = ch]
    ELSE CASE ch = "A_uml" -> "a_uml"
           [] ch = "O_uml" -> "o_uml"
           [] ch = "U_uml" -> "u_uml"
           [] ch = "Eszett_cap" -> "eszett"
           [] ch = "E_acute" -> "e_acute"
           [] OTHER -> ch

\* str.lower
str_lower(s) == [i \in 1..Len(s) |-> lower_ch(s[i])]

\* str.strip: leading and trailing whitespace removed
RECURSIVE lstrip(_)
lstrip(s) ==
    IF s # <<>> /\ Head(s) \in Whitespace THEN lstrip(Tail(s)) ELSE s
RECURSIVE rstrip(_)
rstrip(s) ==
    IF s # <<>> /\ s[Len(s)] \in Whitespace
    THEN rstrip(SubSeq(s, 1, Len(s) - 1))
    ELSE s
strip(s) == rstrip(lstrip(s))

\* str.replace(k, v) for a one-character k
RECURSIVE replace(_, _, _)
replace(s, k, v) ==
    IF s = <<>> THEN <<>>
    ELSE (IF Head(s) = k THEN v ELSE <<Head(s)>>) \o replace(Tail(s), k, v)

\* "".join(ch for ch in s if ch.isalnum())
keep_alnum(s) == SelectSeq(s, isalnum)

UMLAUT_MAP ==
    << <<"a_uml", <<"a","e">> >>,
       <<"o_uml", <<"o","e">> >>,
       <<"u_uml", <<"u","e">> >>,
       <<"A_uml", <<"a","e">> >>,
       <<"O_uml", <<"o","e">> >>,
       <<"U_uml", <<"u","e">> >>,
       <<"eszett", <<"s","s">> >> >>

\* the loop of _fold_umlauts over the first n items of UMLAUT_MAP
RECURSIVE fold_items(_, _)
fold_items(s, n) ==
    IF n = 0 THEN s
    ELSE replace(fold_items(s, n - 1), UMLAUT_MAP[n][1], UMLAUT_MAP[n][2])

_fold_umlauts(s) == fold_items(s, Len(UMLAUT_MAP))

\* A value handed to canon_nh: None, a float NaN (the missing-value marker of
\* a pandas column) or a str.
NoneName == [kind |-> "None", s |-> <<>>]
NaNName == [kind |-> "NaN", s |-> <<>>]
StrName(s) == [kind |-> "str", s |-> s]

\* str(name)
str(x) == IF x.kind = "NaN" THEN <<"n","a","n">> ELSE x.s

\* the folding table applied before lowercasing
canon_nh_fold_first(x) ==
    IF x.kind = "None" THEN <<>>
    ELSE keep_alnum(str_lower(_fold_umlauts(strip(str(x)))))

\* the alphanumeric filter left out
canon_nh_no_filter(x) ==
    IF x.kind = "None" THEN <<>>
    ELSE _fold_umlauts(str_lower(strip(str(x))))

canon_nh(x) ==
    IF x.kind = "None" THEN <<>>
    ELSE keep_alnum(_fold_umlauts(str_lower(strip(str(x)))))

(***************************************************************************)
(* Cuisine tokenization (text.py)                                          *)
(***************************************************************************)
national_cuisine_vocab ==
    { <<"i","t","a","l","i","a","n">>,
      <<"f","r","e","n","c","h">>,
      <<"s","p","a","n","i","s","h">>,
      <<"p","o","r","t","u","g","u","e","s","e">>,
      <<"g","r","e","e","k">>,
      <<"t","u","r","k","i","s","h">>,
      <<"g","e","r","m","a","n">>,
      <<"p","o","l","i","s","h">>,
      <<"r","u","s","s","i","a","n">>,
      <<"u","k","r","a","i","n","i","a","n">>,
      <<"b","a","l","k","a","n">>,
      <<"h","u","n","g","a","r","i","a","n">>,
      <<"r","o","m","a","n","i","a","n">>,
      <<"b","u","l","g","a","r","i","a","n">>,
      <<"g","e","o","r","g","i","a","n">>,
      <<"m","e","x","i","c","a","n">>,
      <<"a","r","g","e","n","t","i","n","i","a","n">>,
      <<"p","e","r","u","v","i","a","n">>,
      <<"b","r","a","z","i","l","i","a","n">>,
      <<"c","o","l","o","m","b","i","a","n">>,
      <<"v","e","n","e","z","u","e","l","a","n">>,
      <<"c","a","r","i","b","b","e","a","n">>,
      <<"a","m","e","r","i","c","a","n">>,
      <<"t","e","x","m","e","x">>,
      <<"l","e","b","a","n","e","s","e">>,
      <<"i","s","r","a","e","l","i">>,
      <<"p","a","l","e","s","t","i","n","i","a","n">>,
      <<"s","y","r","i","a","n">>,
      <<"i","r","a","q","i">>,
      <<"i","r","a","n","i","a","n">>,
      <<"a","f","g","h","a","n">>,
      <<"m","o","r","o","c","c","a","n">>,
      <<"t","u","n","i","s","i","a","n">>,
      <<"a","l","g","e","r","i","a","n">>,
      <<"e","t","h","i","o","p","i","a","n">>,
      <<"e","r","i","t","r","e","a","n">>,
      <<"e","g","y","p","t","i","a","n">>,
      <<"s","o","u","t","h","a","f","r","i","c","a","n">>,
      <<"n","i","g","e","r","i","a","n">>,
      <<"i","n","d","i","a","n">>,
      <<"p","a","k","i","s","t","a","n","i">>,
      <<"b","a","n","g","l","a","d","e","s","h","i">>,
      <<"s","r","i","l","a","n","k","a","n">>,
      <<"n","e","p","a","l","i">>,
      <<"c","h","i","n","e","s","e">>,
      <<"j","a","p","a","n","e","s","e">>,
      <<"k","o","r","e","a","n">>,
      <<"t","h","a","i">>,
      <<"v","i","e","t","n","a","m","e","s","e">>,
      <<"l","a","o","t","i","a","n">>,
      <<"c","a","m","b","o","d","i","a","n">>,
      <<"i","n","d","o","n","e","s","i","a","n">>,
      <<"m","a","l","a","y","s","i","a","n">>,
      <<"s","i","n","g","a","p","o","r","e","a","n">>,
      <<"f","i","l","i","p","i","n","o">> }

_EXCLUDE_TOKENS ==
    { <<"p","i","z","z","a">>,
      <<"p","a","s","t","a">>,
      <<"s","u","s","h","i">>,
      <<"r","a","m","e","n">>,
      <<"d","o","n","e","r">>,
      <<"d","o_uml","n","e","r">>,
      <<"k","e","b","a","b">>,
      <<"b","u","r","g","e","r">>,
      <<"b","b","q">>,
      <<"g","r","i","l","l">>,
      <<"s","t","e","a","k">>,
      <<"n","o","o","d","l","e","s">>,
      <<"d","u","m","p","l","i","n","g">>,
      <<"d","u","m","p","l","i","n","g","s">>,
      <<"s","a","n","d","w","i","c","h">>,
      <<"b","a","k","e","r","y">>,
      <<"c","a","f","e">>,
      <<"c","o","f","f","e","e">>,
      <<"b","u","b","b","l","e","t","e","a">>,
      <<"b","o","b","a">>,
      <<"f","a","l","a","f","e","l">> }

\* raw parts a cuisine field is drawn from
RawParts ==
    { <<"I","t","a","l","i","a","n">>,
      <<" ","P","i","z","z","a">>,
      <<" ","J","a","p","a","n","e","s","e">>,
      <<" ","D","o_uml","n","e","r">>,
      <<" ","V","i","e","t","n","a","m","e","s","e">>,
      <<"T","H","A","I"," ">>,
      <<"T","h","-","a","i">>,
      <<"d","o","n","e","r">>,
      <<"T","e","x","-","M","e","x">>,
      <<"t","h","a_uml","i">>,
      <<>>,
      <<" ">>,
      <<"S","u","s","h","i"," ","b","a","r">> }

\* "Italian; Pizza; Japanese; D-o-umlaut-ner; Vietnamese" (tests/test_text.py)
TestCuisines ==
    <<"I","t","a","l","i","a","n",";"," ","P","i","z","z","a",";"," ","J","a","p","a","n","e","s","e",";"," ","D","o_uml","n","e","r",";"," ","V","i","e","t","n","a","m","e","s","e">>

\* str.split(";")
RECURSIVE split_from(_, _)
split_from(s, cur) ==
    IF s = <<>> THEN <<cur>>
    ELSE IF Head(s) = ";" THEN <<cur>> \o split_from(Tail(s), <<>>)
    ELSE split_from(Tail(s), Append(cur, Head(s)))
split(s) == split_from(s, <<>>)

\* ";".join(parts)
RECURSIVE join(_)
join(parts) ==
    IF Len(parts) = 0 THEN <<>>
    ELSE IF Len(parts) = 1 THEN parts[1]
    ELSE parts[1] \o <<";">> \o join(Tail(parts))

_normalize_token(tok) == keep_alnum(_fold_umlauts(str_lower(strip(tok))))

\* the vocabulary test left out: every non-dish token is kept
RECURSIVE collect_tokens_no_vocab(_)
collect_tokens_no_vocab(parts) ==
    IF parts = <<>> THEN <<>>
    ELSE LET t == _normalize_token(Head(parts))
         IN  IF t = <<>> \/ t \in _EXCLUDE_TOKENS
             THEN collect_tokens_no_vocab(Tail(parts))
             ELSE <<t>> \o collect_tokens_no_vocab(Tail(parts))

\* the loop of tokenize_cuisines over parts
RECURSIVE collect_tokens(_)
collect_tokens(parts) ==
    IF parts = <<>> THEN <<>>
    ELSE LET t == _normalize_token(Head(parts))
         IN  IF t = <<>> \/ t \in _EXCLUDE_TOKENS
             THEN collect_tokens(Tail(parts))
             ELSE IF t \in national_cuisine_vocab
                  THEN <<t>> \o collect_tokens(Tail(parts))
                  ELSE collect_tokens(Tail(parts))

\* tokenize_cuisines for None, a float NaN and a str
tokenize_cuisines(c) ==
    IF c.kind = "None" THEN <<>>
    ELSE IF c.kind = "NaN" THEN <<>>
    ELSE collect_tokens(split(c.s))

nationals_set(c) == Range(tokenize_cuisines(c))

(***************************************************************************)
(* Floats.  A float is NaN or an exact rational n/d in lowest terms with   *)
(* d > 0 (rounding is not modelled), or an infinity where a division by    *)
(* zero produces one.                                                      *)
(***************************************************************************)
RECURSIVE GCD(_, _)
GCD(a, b) == IF b = 0 THEN a ELSE GCD(b, a % b)
Abs(a) == IF a < 0 THEN -a ELSE a

NaN == [kind |-> "nan", n |-> 0, d |-> 1]
Inf(sign) == [kind |-> "inf", n |-> sign, d |-> 1]
Rat(n, d) ==
    LET g == GCD(Abs(n), d)
    IN  [kind |-> "num", n |-> n \div g, d |-> d \div g]
Num(n) == Rat(n, 1)

isnan(x) == x.kind = "nan"
isfinite(x) == x.kind = "num"

\* x + y, x - y, x * y on NaN and finite floats (over the least common
\* denominator, so that the integers stay small)
LCD(x, y) == (x.d \div GCD(x.d, y.d)) * y.d
FAdd(x, y) ==
    IF isnan(x) \/ isnan(y) THEN NaN
    ELSE LET l == LCD(x, y)
         IN  Rat(x.n * (l \div x.d) + y.n * (l \div y.d), l)
FSub(x, y) ==
    IF isnan(x) \/ isnan(y) THEN NaN
    ELSE LET l == LCD(x, y)
         IN  Rat(x.n * (l \div x.d) - y.n * (l \div y.d), l)
FMul(x, y) ==
    IF isnan(x) \/ isnan(y) THEN NaN
    ELSE LET g1 == GCD(Abs(x.n), y.d)
             g2 == GCD(Abs(y.n), x.d)
         IN  Rat((x.n \div g1) * (y.n \div g2), (x.d \div g2) * (y.d \div g1))
\* x / y: 0/0 is NaN, x/0 an infinity
FDiv(x, y) ==
    IF isnan(x) \/ isnan(y) THEN NaN
    ELSE IF y.n = 0 THEN (IF x.n = 0 THEN NaN ELSE Inf(IF x.n > 0 THEN 1 ELSE -1))
    ELSE IF y.n > 0 THEN FMul(x, [kind |-> "num", n |-> y.d, d |-> y.n])
    ELSE FMul(x, [kind |-> "num", n |-> -y.d, d |-> -y.n])

\* comparisons: False whenever an operand is NaN
FLt(x, y) ==
    /\ ~isnan(x)
    /\ ~isnan(y)
    /\ LET l == LCD(x, y) IN x.n * (l \div x.d) < y.n * (l \div y.d)
FLe(x, y) ==
    /\ ~isnan(x)
    /\ ~isnan(y)
    /\ LET l == LCD(x, y) IN x.n * (l \div x.d) <= y.n * (l \div y.d)
FGt(x, y) == FLt(y, x)
FGe(x, y) == FLe(y, x)

\* Python's max(a, b): b when b > a, else a (so max(nan, b) is nan)
PyMax(a, b) == IF FGt(b, a) THEN b ELSE a

\* numpy / pandas clip(lo, hi): NaN stays NaN
clip(x, lo, hi) ==
    IF isnan(x) THEN NaN
    ELSE IF FLt(x, lo) THEN lo
    ELSE IF FGt(x, hi) THEN hi
    ELSE x

(***************************************************************************)
(* Scoring primitives (labels_mobility.py, labels_venues.py, app.py)       *)
(***************************************************************************)
\* the non-NaN values of a series, in series order
dropna(s) == SelectSeq(s, LAMBDA x : ~isnan(x))

\* s with x inserted into the sorted sequence s
RECURSIVE insert_sorted(_, _)
insert_sorted(s, x) ==
    IF s = <<>> THEN <<x>>
    ELSE IF FLe(x, Head(s)) THEN <<x>> \o s
    ELSE <<Head(s)>> \o insert_sorted(Tail(s), x)

RECURSIVE sorted(_)
sorted(s) ==
    IF s = <<>> THEN <<>> ELSE insert_sorted(sorted(Tail(s)), Head(s))

\* np.nanpercentile(s, q), linear interpolation; q is a rational percentage.
\* NaN for an empty or all-NaN series.
nanpercentile(s, q) ==
    LET a == sorted(dropna(s))
        n == Len(a)
        posn == q.n * (n - 1)
        posd == q.d * 100
        lo == posn \div posd
        gamma == Rat(posn % posd, posd)
    IN  IF n = 0 THEN NaN
        ELSE IF gamma.n = 0 THEN a[lo + 1]
        ELSE FAdd(a[lo + 1], FMul(gamma, FSub(a[lo + 2], a[lo + 1])))

\* The floor 1e-9 of the range.  The model takes 1/1000 for it: no two values
\* drawn for a count, an area or a density differ by less, nor do two of their
\* percentiles unless they are equal, so the floor acts on them as 1e-9 does;
\* the series of percentile_score are drawn with the value Eps/2 as well, so
\* that spreads under the floor occur.
Eps == Rat(1, 1000)

\* the clip(0, 1) left out
percentile_score_no_clip(s, lo, hi) ==
    LET p_lo == nanpercentile(s, lo)
        p_hi == nanpercentile(s, hi)
        rng == PyMax(FSub(p_hi, p_lo), Eps)
    IN  [i \in DOMAIN s |-> FMul(FDiv(FSub(s[i], p_lo), rng), Num(100))]

\* the range not floored: a zero-variance series divides 0 by 0
percentile_score_no_floor(s, lo, hi) ==
    LET p_lo == nanpercentile(s, lo)
        p_hi == nanpercentile(s, hi)
        rng == FSub(p_hi, p_lo)
    IN  [i \in DOMAIN s |->
            LET scaled == FDiv(FSub(s[i], p_lo), rng)
            IN  IF isfinite(scaled)
                THEN FMul(clip(scaled, Num(0), Num(1)), Num(100))
                ELSE NaN]

\* the clipped fraction not brought to the scale of 100
percentile_score_fraction(s, lo, hi) ==
    LET p_lo == nanpercentile(s, lo)
        p_hi == nanpercentile(s, hi)
        rng == PyMax(FSub(p_hi, p_lo), Eps)
    IN  [i \in DOMAIN s |-> clip(FDiv(FSub(s[i], p_lo), rng), Num(0), Num(1))]

\* percentile_score of labels_mobility.py and (the same code) labels_venues.py
percentile_score(s, lo, hi) ==
    LET p_lo == nanpercentile(s, lo)
        p_hi == nanpercentile(s, hi)
        rng == PyMax(FSub(p_hi, p_lo), Eps)
    IN  [i \in DOMAIN s |->
            FMul(clip(FDiv(FSub(s[i], p_lo), rng), Num(0), Num(1)), Num(100))]

\* percentile_score of app.py (pd.to_numeric leaves a float series as it is)
app_percentile_score(s, lo, hi) ==
    IF ~(\E i \in DOMAIN s : isfinite(s[i]))
    THEN [i \in DOMAIN s |-> NaN]
    ELSE LET p_lo == nanpercentile(s, lo)
             p_hi == nanpercentile(s, hi)
             rng == PyMax(FSub(p_hi, p_lo), Eps)
         IN  [i \in DOMAIN s |->
                 IF isnan(s[i]) THEN NaN
                 ELSE FMul(clip(FDiv(FSub(s[i], p_lo), rng), Num(0), Num(1)),
                           Num(100))]

\* the default percentiles lo=10, hi=90
DefaultLo == Num(10)
DefaultHi == Num(90)

\* the percentiles 33.333 and 66.666 of tercile_labels
TercileLo == Rat(33333, 1000)
TercileHi == Rat(66666, 1000)

\* lab of tercile_labels: labels = (high, mid, low)
tercile_lab_strict(v, q1, q2, labels) ==
    IF isnan(v) THEN labels[2]
    ELSE IF FLt(v, q1) THEN labels[3]
    ELSE IF FGt(v, q2) THEN labels[1]
    ELSE labels[2]

tercile_lab(v, q1, q2, labels) ==
    IF isnan(v) THEN labels[2]
    ELSE IF FLe(v, q1) THEN labels[3]
    ELSE IF FGe(v, q2) THEN labels[1]
    ELSE labels[2]

\* tercile_labels of labels_mobility.py and (the same code) labels_venues.py
tercile_labels(values, labels) ==
    LET q1 == nanpercentile(values, TercileLo)
        q2 == nanpercentile(values, TercileHi)
    IN  [i \in DOMAIN values |-> tercile_lab(values[i], q1, q2, labels)]

MobilityLabels == <<"well-connected", "moderate", "remote">>
VibrancyLabels == <<"vibrant", "average", "sparse">>

(***************************************************************************)
(* Areas (geo.py) and band labels (labels_parks.py, labels_playgrounds.py, *)
(* aggregate.py).  A table is a sequence of rows.                          *)
(***************************************************************************)
\* Series.clip(lower=0.20)
AreaFloor == Rat(20, 100)
clip_lower(x, lo) == IF isnan(x) THEN NaN ELSE IF FLt(x, lo) THEN lo ELSE x

\* Series.replace([np.inf, -np.inf], np.nan)
replace_inf(x) == IF x.kind = "inf" THEN NaN ELSE x

\* Series.sum(): NaN skipped
RECURSIVE nansum(_)
nansum(s) ==
    IF s = <<>> THEN Num(0)
    ELSE IF isnan(Head(s)) THEN nansum(Tail(s))
    ELSE FAdd(Head(s), nansum(Tail(s)))

\* np.nanmedian: NaN for an empty or all-NaN series
nanmedian(s) ==
    LET a == sorted(dropna(s))
        n == Len(a)
    IN  IF n = 0 THEN NaN
        ELSE IF n % 2 = 1 THEN a[(n + 1) \div 2]
        ELSE FDiv(FAdd(a[n \div 2], a[n \div 2 + 1]), Num(2))

\* the half widths 0.03 and 0.30 of the bands
ParksHalfWidth == Rat(3, 100)
PlaygroundsHalfWidth == Rat(30, 100)

\* a value on the edge of the band labelled as outside it
band_lab_inclusive(v, lower, upper) ==
    IF isnan(v) THEN "average"
    ELSE IF FLe(v, lower) THEN "below average"
    ELSE IF FGe(v, upper) THEN "above average"
    ELSE "average"

\* lab of label_green_share, label_playgrounds_density,
\* aggregate_parks_to_district and aggregate_playgrounds_to_district
band_lab(v, lower, upper) ==
    IF isnan(v) THEN "average"
    ELSE IF FLt(v, lower) THEN "below average"
    ELSE IF FGt(v, upper) THEN "above average"
    ELSE "average"

Column(df, c) == [i \in DOMAIN df |-> df[i][c]]

\* the quotient stored as it is, an infinity included
label_green_share_keep_inf(df_with_area) ==
    LET share == [i \in DOMAIN df_with_area |->
                    FDiv(df_with_area[i].green_area_km2,
                         df_with_area[i].area_km2)]
        med == IF Len(df_with_area) > 0 THEN nanmedian(share) ELSE NaN
        lower == FSub(med, ParksHalfWidth)
        upper == FAdd(med, ParksHalfWidth)
    IN  [i \in DOMAIN df_with_area |->
            [district_id |-> df_with_area[i].district_id,
             green_area_km2 |-> df_with_area[i].green_area_km2,
             area_km2 |-> df_with_area[i].area_km2,
             value |-> share[i],
             label |-> band_lab(share[i], lower, upper)]]

label_green_share(df_with_area) ==
    LET share == [i \in DOMAIN df_with_area |->
                    replace_inf(FDiv(df_with_area[i].green_area_km2,
                                     df_with_area[i].area_km2))]
        med == IF Len(df_with_area) > 0 THEN nanmedian(share) ELSE NaN
        lower == FSub(med, ParksHalfWidth)
        upper == FAdd(med, ParksHalfWidth)
    IN  [i \in DOMAIN df_with_area |->
            [district_id |-> df_with_area[i].district_id,
             green_area_km2 |-> df_with_area[i].green_area_km2,
             area_km2 |-> df_with_area[i].area_km2,
             value |-> share[i],
             label |-> band_lab(share[i], lower, upper)]]

label_playgrounds_density(df_with_area) ==
    LET dens == [i \in DOMAIN df_with_area |->
                    replace_inf(FDiv(Num(df_with_area[i].n_playgrounds),
                                     df_with_area[i].area_eff_km2))]
        med == IF Len(df_with_area) > 0 THEN nanmedian(dens) ELSE NaN
        lower == FSub(med, PlaygroundsHalfWidth)
        upper == FAdd(med, PlaygroundsHalfWidth)
    IN  [i \in DOMAIN df_with_area |->
            [district_id |-> df_with_area[i].district_id,
             n_playgrounds |-> df_with_area[i].n_playgrounds,
             area_eff_km2 |-> df_with_area[i].area_eff_km2,
             value |-> dens[i],
             label |-> band_lab(dens[i], lower, upper)]]

\* the district ids of a table, ascending (groupby sorts its keys)
RECURSIVE ascending(_)
ascending(S) ==
    IF S = {} THEN <<>>
    ELSE LET m == CHOOSE x \in S : \A y \in S : x <= y
         IN  <<m>> \o ascending(S \ {m})
group_keys(df) == ascending({ df[i].district_id : i \in DOMAIN df })
group_rows(df, d) == SelectSeq(df, LAMBDA r : r.district_id = d)

\* _sum_area: areas summed by district; area_eff_km2 is the sum of the column
\* when gdf_nei has it, else the floored sum of area_km2
_sum_area(df_nei) ==
    LET keys == group_keys(df_nei.rows)
    IN  [k \in DOMAIN keys |->
            LET g == group_rows(df_nei.rows, keys[k])
                area == nansum(Column(g, "area_km2"))
            IN  [district_id |-> keys[k],
                 area_km2 |-> area,
                 area_eff_km2 |->
                     IF df_nei.area_eff_col
                     THEN nansum(Column(g, "area_eff_km2"))
                     ELSE clip_lower(area, AreaFloor)]]

\* column c of the row of area for district d, NaN when there is none
\* (merge(how="left") on district_id)
merged_area(area, d, c) ==
    IF \E k \in DOMAIN area : area[k].district_id = d
    THEN area[CHOOSE k \in DOMAIN area : area[k].district_id = d][c]
    ELSE NaN

aggregate_parks_to_district(parks, df_nei) ==
    LET keys == group_keys(parks)
        area == _sum_area(df_nei)
        green == [k \in DOMAIN keys |->
                     nansum(Column(group_rows(parks, keys[k]), "green_area_km2"))]
        akm2 == [k \in DOMAIN keys |-> merged_area(area, keys[k], "area_km2")]
        share == [k \in DOMAIN keys |-> replace_inf(FDiv(green[k], akm2[k]))]
        med == IF Len(keys) > 0 THEN nanmedian(share) ELSE NaN
        lower == FSub(med, ParksHalfWidth)
        upper == FAdd(med, ParksHalfWidth)
    IN  [k \in DOMAIN keys |->
            [district_id |-> keys[k],
             green_area_km2 |-> green[k],
             area_km2 |-> akm2[k],
             value |-> share[k],
             label |-> band_lab(share[k], lower, upper)]]

RECURSIVE intsum(_)
intsum(s) == IF s = <<>> THEN 0 ELSE Head(s) + intsum(Tail(s))

aggregate_playgrounds_to_district(play, df_nei) ==
    LET keys == group_keys(play)
        area == _sum_area(df_nei)
        n == [k \in DOMAIN keys |->
                 intsum(Column(group_rows(play, keys[k]), "n_playgrounds"))]
        aeff == [k \in DOMAIN keys |-> merged_area(area, keys[k], "area_eff_km2")]
        dens == [k \in DOMAIN keys |-> replace_inf(FDiv(Num(n[k]), aeff[k]))]
        med == IF Len(keys) > 0 THEN nanmedian(dens) ELSE NaN
        lower == FSub(med, PlaygroundsHalfWidth)
        upper == FAdd(med, PlaygroundsHalfWidth)
    IN  [k \in DOMAIN keys |->
            [district_id |-> keys[k],
             n_playgrounds |-> n[k],
             area_eff_km2 |-> aeff[k],
             value |-> dens[k],
             label |-> band_lab(dens[k], lower, upper)]]

(***************************************************************************)
(* compute_mobility_labels                                                 *)
(*                                                                         *)
(* The plane is a grid of cells <<x, y>>.  A polygon's geometry is the set *)
(* of cells it covers, a point's geometry is the cell it lies in.          *)
(***************************************************************************)
\* a column with its values computed once (TLC would otherwise compute a
\* value again at every use)
Values(column) == column \o <<>>

\* geo.compute_area_km2: area_km2 is taken from the geometry where the column
\* is absent or null, and area_eff_km2 is area_km2 clipped from below
compute_area_km2(gdf) ==
    LET compute ==
            \/ ~gdf.area_col
            \/ \E i \in DOMAIN gdf.rows : isnan(gdf.rows[i].area_km2)
        area(i) ==
            IF ~compute THEN gdf.rows[i].area_km2
            ELSE IF gdf.area_col /\ ~isnan(gdf.rows[i].area_km2)
                 THEN gdf.rows[i].area_km2
            ELSE gdf.rows[i].geom_km2
    IN  [area_col |-> TRUE,
         area_eff_col |-> TRUE,
         rows |-> [i \in DOMAIN gdf.rows |->
                      [gdf.rows[i] EXCEPT
                          !.area_km2 = area(i),
                          !.area_eff_km2 = clip_lower(area(i), AreaFloor)]]]

\* groupby(...).first(): the first non-null value of a column, null when
\* there is none
RECURSIVE first(_)
first(column) ==
    IF column = <<>> THEN NaN
    ELSE IF ~isnan(Head(column)) THEN Head(column)
    ELSE first(Tail(column))

\* the union of the geometries of a group
RECURSIVE unary_union(_)
unary_union(geoms) ==
    IF geoms = <<>> THEN {} ELSE Head(geoms) \cup unary_union(Tail(geoms))

\* geo.dissolve_by_district: GeoDataFrame.dissolve(by=district_id) unions the
\* geometries of a district and keeps the first non-null value of every
\* other column (aggfunc="first"); compute_area_km2 is then applied to the
\* dissolved table, whose area of geometry is the sum of the areas of the
\* disjoint members
dissolve_by_district(gdf) ==
    LET keys == group_keys(gdf.rows)
        dissolved ==
            [area_col |-> gdf.area_col,
             area_eff_col |-> gdf.area_eff_col,
             rows |-> [k \in DOMAIN keys |->
                 LET g == group_rows(gdf.rows, keys[k])
                 IN  [district_id |-> keys[k],
                      neighborhood_id |-> g[1].neighborhood_id,
                      neighborhood |-> g[1].neighborhood,
                      geometry |-> unary_union(Column(g, "geometry")),
                      geom_km2 |-> nansum(Column(g, "geom_km2")),
                      area_km2 |-> first(Column(g, "area_km2")),
                      area_eff_km2 |-> first(Column(g, "area_eff_km2"))]]]
    IN  compute_area_km2(dissolved)

\* geo.to_points_gdf: Point(xy) for xy in zip(df[lon], df[lat])
to_points_gdf(df) ==
    [j \in DOMAIN df |-> [geometry |-> <<df[j].lon, df[j].lat>>]]

\* the join with every point paired with every polygon
points_within_all(polys, pts) ==
    { [pt |-> j, poly_index |-> polys[k].poly_index] :
        <<j, k>> \in (DOMAIN pts) \X (DOMAIN polys) }

\* geo.points_within: sjoin(pts, polys, how="inner", predicate="within"); one
\* row for every point and every polygon the point lies within
points_within(polys, pts) ==
    { [pt |-> j, poly_index |-> polys[k].poly_index] :
        <<j, k>> \in { jk \in (DOMAIN pts) \X (DOMAIN polys) :
                          pts[jk[1]].geometry \in polys[jk[2]].geometry } }

\* groupby(poly_index).size(): a count for every poly_index that occurs
group_size(joined) ==
    [p \in { r.poly_index : r \in joined } |->
        Cardinality({ r \in joined : r.poly_index = p })]

\* merge(cnt, on="poly_index", how="left") followed by fillna(0).astype(int)
merge_left_fillna(cnt, poly_index) ==
    IF poly_index \in DOMAIN cnt THEN cnt[poly_index] ELSE 0

UbahnWeight == Rat(7, 10)
BusTramWeight == Rat(3, 10)

\* the density with the two weights exchanged
connectivity_density_swapped(ubahn_stations, bus_tram_stops, area_eff_km2) ==
    FDiv(FAdd(FMul(BusTramWeight, Num(ubahn_stations)),
              FMul(UbahnWeight, Num(bus_tram_stops))),
         area_eff_km2)

\* (0.7 * ubahn_stations + 0.3 * bus_tram_stops) / area_eff_km2
connectivity_density(ubahn_stations, bus_tram_stops, area_eff_km2) ==
    FDiv(FAdd(FMul(UbahnWeight, Num(ubahn_stations)),
              FMul(BusTramWeight, Num(bus_tram_stops))),
         area_eff_km2)

compute_mobility_labels(gdf, ubahn, bus_tram) ==
    LET g == compute_area_km2(gdf)
        \* reset_index(): the RangeIndex 0..n-1 becomes the column poly_index
        base_polys == [i \in DOMAIN g.rows |->
                          [poly_index |-> i - 1, row |-> g.rows[i],
                           geometry |-> g.rows[i].geometry]]
        pts_ubahn == points_within(base_polys, to_points_gdf(ubahn))
        pts_bus == points_within(base_polys, to_points_gdf(bus_tram))
        cnt_ubahn == group_size(pts_ubahn)
        cnt_bus == group_size(pts_bus)
        u == Values([i \in DOMAIN base_polys |->
                 merge_left_fillna(cnt_ubahn, base_polys[i].poly_index)])
        b == Values([i \in DOMAIN base_polys |->
                 merge_left_fillna(cnt_bus, base_polys[i].poly_index)])
        density == Values([i \in DOMAIN base_polys |->
                       connectivity_density(u[i], b[i],
                                            base_polys[i].row.area_eff_km2)])
        score == Values(percentile_score(density, DefaultLo, DefaultHi))
        label == Values(tercile_labels(score, MobilityLabels))
    IN  [i \in DOMAIN base_polys |->
            [district_id |-> base_polys[i].row.district_id,
             neighborhood_id |-> base_polys[i].row.neighborhood_id,
             neighborhood |-> base_polys[i].row.neighborhood,
             neighborhood_canon |->
                 canon_nh(StrName(base_polys[i].row.neighborhood)),
             ubahn_stations |-> u[i],
             bus_tram_stops |-> b[i],
             total_stops |-> u[i] + b[i],
             connectivity_density |-> density[i],
             mobility_score |-> score[i],
             mobility_label |-> label[i]]]

\* what a function gives: the table it returned, or the exception it raised
Returned(rows) == [raised |-> "", rows |-> rows]
Raised(exception) == [raised |-> exception, rows |-> <<>>]

\* the district score taken as the mean of the member neighborhoods' scores
district_mobility_score_mean(nei_labels, keys, density) ==
    [k \in DOMAIN keys |->
        LET g == group_rows(nei_labels, keys[k])
        IN  FDiv(nansum(Column(g, "mobility_score")), Num(Len(g)))]

\* percentile_score(out["connectivity_density"])
district_mobility_score(nei_labels, keys, density) ==
    percentile_score(density, DefaultLo, DefaultHi)

\* aggregate.aggregate_mobility_to_district: counts summed by district, the
\* areas of _sum_area merged on, density, score and label recomputed
aggregate_mobility_to_district(nei_labels, gdf) ==
    LET keys == group_keys(nei_labels)
        area == _sum_area(gdf)
        u == [k \in DOMAIN keys |->
                 intsum(Column(group_rows(nei_labels, keys[k]), "ubahn_stations"))]
        b == [k \in DOMAIN keys |->
                 intsum(Column(group_rows(nei_labels, keys[k]), "bus_tram_stops"))]
        t == [k \in DOMAIN keys |->
                 intsum(Column(group_rows(nei_labels, keys[k]), "total_stops"))]
        akm2 == [k \in DOMAIN keys |-> merged_area(area, keys[k], "area_km2")]
        aeff == [k \in DOMAIN keys |-> merged_area(area, keys[k], "area_eff_km2")]
        density == Values([k \in DOMAIN keys |->
                       FDiv(FAdd(FMul(UbahnWeight, Num(u[k])),
                                 FMul(BusTramWeight, Num(b[k]))),
                            aeff[k])])
        score == Values(district_mobility_score(nei_labels, keys, density))
        label == Values(tercile_labels(score, MobilityLabels))
    IN  \* without area_km2 and area_eff_km2 _sum_area returns district_id
        \* alone, and out["area_eff_km2"] is a key-lookup failure
        IF ~gdf.area_col /\ ~gdf.area_eff_col THEN Raised("KeyError")
        ELSE Returned(
            [k \in DOMAIN keys |->
                [district_id |-> keys[k],
                 ubahn_stations |-> u[k],
                 bus_tram_stops |-> b[k],
                 total_stops |-> t[k],
                 area_km2 |-> akm2[k],
                 area_eff_km2 |-> aeff[k],
                 connectivity_density |-> density[k],
                 mobility_score |-> score[k],
                 mobility_label |-> label[k]]])

(***************************************************************************)
(* Tables.  A DataFrame is its columns (the names, in order) and its rows; *)
(* a row is a function from the column names to values.  Numbers are       *)
(* floats; a null is NaN, and NA in a column of strings.                   *)
(***************************************************************************)
DataFrame(columns, rows) == [columns |-> columns, rows |-> rows]

NA == "nan"

\* the columns that hold strings
StringColumns ==
    {"mobility_label", "green_share_label", "playgrounds_density_label",
     "vibrancy_label"}

Null(c) == IF c \in StringColumns THEN NA ELSE NaN

\* the names pandas gives to a column that both sides of a merge carry
\* (suffixes "_x" and "_y")
Suffixed ==
    [n_cuisine_types |-> [x |-> "n_cuisine_types_x", y |-> "n_cuisine_types_y"],
     n_venues |-> [x |-> "n_venues_x", y |-> "n_venues_y"],
     area_km2 |-> [x |-> "area_km2_x", y |-> "area_km2_y"],
     area_eff_km2 |-> [x |-> "area_eff_km2_x", y |-> "area_eff_km2_y"]]

\* the positions of name c in a sequence of names
index_of(columns, c) == CHOOSE i \in DOMAIN columns : columns[i] = c

\* df[cols]
select(df, cols) ==
    DataFrame(cols, [i \in DOMAIN df.rows |-> [c \in Range(cols) |-> df.rows[i][c]]])

RECURSIVE concat(_)
concat(seqs) == IF seqs = <<>> THEN <<>> ELSE Head(seqs) \o concat(Tail(seqs))

\* left.merge(right, on=on, how="left"): every row of left, in order, once
\* for every row of right that has the same values in the columns of on, and
\* once with nulls when there is none
merge(left, right, on) ==
    LET others == SelectSeq(right.columns, LAMBDA c : c \notin Range(on))
        overlap == { c \in Range(left.columns) : c \in Range(others) }
        left_names == [i \in DOMAIN left.columns |->
                          IF left.columns[i] \in overlap
                          THEN Suffixed[left.columns[i]].x ELSE left.columns[i]]
        right_names == [i \in DOMAIN others |->
                           IF others[i] \in overlap
                           THEN Suffixed[others[i]].y ELSE others[i]]
        joined(l, r, matched) ==
            [c \in Range(left_names) \cup Range(right_names) |->
                IF c \in Range(left_names)
                THEN l[left.columns[index_of(left_names, c)]]
                ELSE IF matched THEN r[others[index_of(right_names, c)]]
                ELSE Null(others[index_of(right_names, c)])]
        matches(l) ==
            SelectSeq(right.rows, LAMBDA r : \A c \in Range(on) : r[c] = l[c])
        rows_of(l) ==
            IF matches(l) = <<>> THEN <<joined(l, l, FALSE)>>
            ELSE [k \in DOMAIN matches(l) |-> joined(l, matches(l)[k], TRUE)]
    IN  DataFrame(left_names \o right_names,
                  concat([i \in DOMAIN left.rows |-> rows_of(left.rows[i])]))

\* the characters in the order of their code points
CodePoints ==
    <<" ", "-", ".", "0", "1", "2", "3", "4", "5", "6", "7", "8", "9", ";">>
        \o AsciiUpperSeq \o AsciiLowerSeq
        \o <<"A_uml", "E_acute", "O_uml", "U_uml", "eszett", "a_uml", "e_acute",
             "o_uml", "u_uml", "Eszett_cap">>

ord(ch) == CHOOSE i \in DOMAIN CodePoints : CodePoints[i] = ch

\* a < b for two str
RECURSIVE str_less(_, _)
str_less(a, b) ==
    IF b = <<>> THEN FALSE
    ELSE IF a = <<>> THEN TRUE
    ELSE IF Head(a) # Head(b) THEN ord(Head(a)) < ord(Head(b))
    ELSE str_less(Tail(a), Tail(b))

\* the order of the group keys (district_id, neighborhood_canon)
key_less(a, b) ==
    \/ a.district_id < b.district_id
    \/ /\ a.district_id = b.district_id
       /\ str_less(a.neighborhood_canon, b.neighborhood_canon)

RECURSIVE sort_keys(_)
sort_keys(S) ==
    IF S = {} THEN <<>>
    ELSE LET m == CHOOSE x \in S : \A y \in S \ {x} : key_less(x, y)
         IN  <<m>> \o sort_keys(S \ {m})

key_of(r) ==
    [district_id |-> r["district_id"], neighborhood_canon |-> r["neighborhood_canon"]]

\* groupby(["district_id", "neighborhood_canon"]): the groups, by sorted key
groups(rows) ==
    LET keys == sort_keys({ key_of(rows[i]) : i \in DOMAIN rows })
    IN  [k \in DOMAIN keys |-> SelectSeq(rows, LAMBDA r : key_of(r) = keys[k])]

KeyColumns == <<"district_id", "neighborhood_canon">>

\* labels_parks.compute_parks_labels: green area (km2) summed by neighborhood
compute_parks_labels(df_parks) ==
    LET parks == [i \in DOMAIN df_parks |->
                     [district_id |-> df_parks[i].district_id,
                      neighborhood_canon |-> canon_nh(df_parks[i].neighborhood),
                      green_area_km2 |->
                          FDiv(Num(df_parks[i].size_sqm), Num(1000000))]]
        g == groups(parks)
    IN  DataFrame(KeyColumns \o <<"green_area_km2">>,
            [k \in DOMAIN g |->
                [district_id |-> g[k][1].district_id,
                 neighborhood_canon |-> g[k][1].neighborhood_canon,
                 green_area_km2 |-> nansum(Column(g[k], "green_area_km2"))]])

\* label_green_share on a table: the columns green_share and
\* green_share_label are added
df_label_green_share(df) ==
    LET out == label_green_share(df.rows)
    IN  DataFrame(df.columns \o <<"green_share", "green_share_label">>,
            [i \in DOMAIN df.rows |->
                [c \in Range(df.columns) \cup {"green_share", "green_share_label"} |->
                    IF c = "green_share" THEN out[i].value
                    ELSE IF c = "green_share_label" THEN out[i].label
                    ELSE df.rows[i][c]]])

\* str.contains of a literal
contains(s, sub) ==
    \E k \in 0..(Len(s) - Len(sub)) : SubSeq(s, k + 1, k + Len(sub)) = sub

Spielplatz == <<"s", "p", "i", "e", "l", "p", "l", "a", "t", "z">>

\* labels_playgrounds.compute_playgrounds_labels: the records whose type
\* contains "spielplatz" counted by neighborhood
compute_playgrounds_labels(df_playgrounds) ==
    LET df == [i \in DOMAIN df_playgrounds |->
                  [district_id |-> df_playgrounds[i].district_id,
                   neighborhood_canon |-> canon_nh(df_playgrounds[i].neighborhood),
                   green_area_type |-> df_playgrounds[i].green_area_type]]
        play == SelectSeq(df, LAMBDA r :
                    contains(str_lower(str(r.green_area_type)), Spielplatz))
        g == groups(play)
    IN  DataFrame(KeyColumns \o <<"n_playgrounds">>,
            [k \in DOMAIN g |->
                [district_id |-> g[k][1].district_id,
                 neighborhood_canon |-> g[k][1].neighborhood_canon,
                 n_playgrounds |-> Num(Len(g[k]))]])

\* label_playgrounds_density on a table: the columns playgrounds_per_km2 and
\* playgrounds_density_label are added
df_label_playgrounds_density(df) ==
    LET out == label_playgrounds_density(
                   [i \in DOMAIN df.rows |->
                       [district_id |-> df.rows[i]["district_id"],
                        n_playgrounds |-> df.rows[i]["n_playgrounds"].n,
                        area_eff_km2 |-> df.rows[i]["area_eff_km2"]]])
        added == {"playgrounds_per_km2", "playgrounds_density_label"}
    IN  DataFrame(df.columns \o <<"playgrounds_per_km2", "playgrounds_density_label">>,
            [i \in DOMAIN df.rows |->
                [c \in Range(df.columns) \cup added |->
                    IF c = "playgrounds_per_km2" THEN out[i].value
                    ELSE IF c = "playgrounds_density_label" THEN out[i].label
                    ELSE df.rows[i][c]]])

\* labels_venues.compute_venues_features: venues and distinct national
\* cuisine types by neighborhood
compute_venues_features(df_venues) ==
    LET df == [i \in DOMAIN df_venues |->
                  [district_id |-> df_venues[i].district_id,
                   neighborhood_canon |-> canon_nh(df_venues[i].neighborhood),
                   national_set |-> nationals_set(df_venues[i].cuisine)]]
        g == groups(df)
    IN  DataFrame(KeyColumns \o <<"n_venues", "n_cuisine_types">>,
            [k \in DOMAIN g |->
                [district_id |-> g[k][1].district_id,
                 neighborhood_canon |-> g[k][1].neighborhood_canon,
                 n_venues |-> Num(Len(g[k])),
                 n_cuisine_types |->
                     Num(Cardinality(UNION { g[k][i].national_set : i \in DOMAIN g[k] }))]])

VenuesWeight == Rat(65, 100)
CuisineWeight == Rat(35, 100)
EligibleVenues == Num(10)
EligibleDensity == Num(2)

\* the label of a neighborhood that is not eligible set to the low label
compute_vibrancy_scores_gated(df_features, df_nei_area) ==
    LET df == merge(df_features, df_nei_area, KeyColumns)
        per_km2 == Values([i \in DOMAIN df.rows |->
                       replace_inf(FDiv(df.rows[i]["n_venues"],
                                        df.rows[i]["area_eff_km2"]))])
        V_score == Values(percentile_score(per_km2, DefaultLo, DefaultHi))
        C_score == Values(percentile_score(Column(df.rows, "n_cuisine_types"),
                                           DefaultLo, DefaultHi))
        VV_index == Values([i \in DOMAIN df.rows |->
                        FAdd(FMul(VenuesWeight, V_score[i]),
                             FMul(CuisineWeight, C_score[i]))])
        label == Values(tercile_labels(VV_index, VibrancyLabels))
        added == <<"venues_per_km2", "V_score", "C_score", "VV_index",
                   "vibrancy_eligible", "vibrancy_label">>
    IN  DataFrame(df.columns \o added,
            [i \in DOMAIN df.rows |->
                [c \in Range(df.columns) \cup Range(added) |->
                    CASE c = "venues_per_km2" -> per_km2[i]
                      [] c = "V_score" -> V_score[i]
                      [] c = "C_score" -> C_score[i]
                      [] c = "VV_index" -> VV_index[i]
                      [] c = "vibrancy_eligible" ->
                            /\ FGe(df.rows[i]["n_venues"], EligibleVenues)
                            /\ FGe(per_km2[i], EligibleDensity)
                      [] c = "vibrancy_label" ->
                            IF /\ FGe(df.rows[i]["n_venues"], EligibleVenues)
                               /\ FGe(per_km2[i], EligibleDensity)
                            THEN label[i] ELSE VibrancyLabels[3]
                      [] OTHER -> df.rows[i][c]]])

\* labels_venues.compute_vibrancy_scores
compute_vibrancy_scores(df_features, df_nei_area) ==
    LET df == merge(df_features, df_nei_area, KeyColumns)
        per_km2 == Values([i \in DOMAIN df.rows |->
                       replace_inf(FDiv(df.rows[i]["n_venues"],
                                        df.rows[i]["area_eff_km2"]))])
        V_score == Values(percentile_score(per_km2, DefaultLo, DefaultHi))
        C_score == Values(percentile_score(Column(df.rows, "n_cuisine_types"),
                                           DefaultLo, DefaultHi))
        VV_index == Values([i \in DOMAIN df.rows |->
                        FAdd(FMul(VenuesWeight, V_score[i]),
                             FMul(CuisineWeight, C_score[i]))])
        label == Values(tercile_labels(VV_index, VibrancyLabels))
        added == <<"venues_per_km2", "V_score", "C_score", "VV_index",
                   "vibrancy_eligible", "vibrancy_label">>
    IN  DataFrame(df.columns \o added,
            [i \in DOMAIN df.rows |->
                [c \in Range(df.columns) \cup Range(added) |->
                    CASE c = "venues_per_km2" -> per_km2[i]
                      [] c = "V_score" -> V_score[i]
                      [] c = "C_score" -> C_score[i]
                      [] c = "VV_index" -> VV_index[i]
                      [] c = "vibrancy_eligible" ->
                            /\ FGe(df.rows[i]["n_venues"], EligibleVenues)
                            /\ FGe(per_km2[i], EligibleDensity)
                      [] c = "vibrancy_label" -> label[i]
                      [] OTHER -> df.rows[i][c]]])

MobilityColumns ==
    <<"district_id", "neighborhood_id", "neighborhood", "neighborhood_canon",
      "ubahn_stations", "bus_tram_stops", "total_stops", "connectivity_density",
      "mobility_score", "mobility_label">>

\* the table compute_mobility_labels returns, its counts as numbers
mobility_frame(rows) ==
    DataFrame(MobilityColumns,
        [i \in DOMAIN rows |->
            [c \in Range(MobilityColumns) |->
                IF c \in {"ubahn_stations", "bus_tram_stops", "total_stops"}
                THEN Num(rows[i][c]) ELSE rows[i][c]]])

\* pipeline.py lines 145-160: the features and the vibrancy scores joined on
merge_venues(minimal, venF, venV) ==
    merge(merge(minimal, venF, KeyColumns),
          select(venV, KeyColumns \o
                     <<"venues_per_km2", "n_cuisine_types", "V_score", "C_score",
                       "VV_index", "vibrancy_label">>),
          KeyColumns)

\* the theme tables joined with an inner join
merge_themes_inner(base, mob, parks, plays) ==
    LET m == merge(merge(merge(base, mob,
                 <<"district_id", "neighborhood_id", "neighborhood",
                   "neighborhood_canon">>),
             select(parks, KeyColumns \o
                 <<"green_area_km2", "green_share", "green_share_label">>),
             KeyColumns),
             select(plays, KeyColumns \o
                 <<"n_playgrounds", "playgrounds_per_km2",
                   "playgrounds_density_label">>),
             KeyColumns)
    IN  DataFrame(m.columns,
            SelectSeq(m.rows, LAMBDA r :
                /\ \E i \in DOMAIN parks.rows : key_of(parks.rows[i]) = key_of(r)
                /\ \E i \in DOMAIN plays.rows : key_of(plays.rows[i]) = key_of(r)))

\* pipeline.py lines 131-143: mobility, parks and playgrounds joined onto the
\* polygons' identity with left joins
merge_themes(base, mob, parks, plays) ==
    merge(merge(merge(base, mob,
              <<"district_id", "neighborhood_id", "neighborhood",
                "neighborhood_canon">>),
          select(parks, KeyColumns \o
              <<"green_area_km2", "green_share", "green_share_label">>),
          KeyColumns),
          select(plays, KeyColumns \o
              <<"n_playgrounds", "playgrounds_per_km2",
                "playgrounds_density_label">>),
          KeyColumns)

\* pipeline.run_all_preprocessing: the polygons with areas and canonical
\* names, the four theme tables, and the minimal and full merged tables
run_all_preprocessing(neighborhoods, ubahn, bus_tram, df_parks, df_playgrounds, df_venues) ==
    LET g == compute_area_km2(neighborhoods)
        columns == <<"district_id", "neighborhood_id", "neighborhood",
                     "neighborhood_canon", "area_km2", "area_eff_km2">>
        gdf_frame ==
            DataFrame(columns,
                [i \in DOMAIN g.rows |->
                    [c \in Range(columns) |->
                        IF c = "neighborhood_canon"
                        THEN canon_nh(StrName(g.rows[i].neighborhood))
                        ELSE g.rows[i][c]]])
        mob == mobility_frame(compute_mobility_labels(g, ubahn, bus_tram))
        parks_agg == compute_parks_labels(df_parks)
        parks == df_label_green_share(
                     merge(parks_agg,
                           select(gdf_frame, KeyColumns \o <<"area_km2">>),
                           KeyColumns))
        plays_cnt == compute_playgrounds_labels(df_playgrounds)
        plays == df_label_playgrounds_density(
                     merge(plays_cnt,
                           select(gdf_frame, KeyColumns \o <<"area_eff_km2">>),
                           KeyColumns))
        venF == compute_venues_features(df_venues)
        venV == compute_vibrancy_scores(
                    venF, select(gdf_frame, KeyColumns \o <<"area_eff_km2">>))
        \* the model's polygons carry no column "district": district_id is
        \* taken twice and the second is named district
        base_columns == <<"district_id", "district", "neighborhood_id",
                          "neighborhood", "neighborhood_canon", "area_km2">>
        base == DataFrame(base_columns,
                    [i \in DOMAIN gdf_frame.rows |->
                        [c \in Range(base_columns) |->
                            IF c = "district" THEN gdf_frame.rows[i]["district_id"]
                            ELSE gdf_frame.rows[i][c]]])
        minimal == merge_themes(base, mob, parks, plays)
        merged == merge_venues(minimal, venF, venV)
    IN  [mob |-> mob, parks |-> parks, plays |-> plays, venF |-> venF,
         venV |-> venV, minimal |-> minimal, merged |-> merged]

(***************************************************************************)
(* app.py: the weighted suitability                                        *)
(***************************************************************************)
\* a table of the app: its columns by name, each a series over the entities
Frame(rows, data) == [rows |-> rows, data |-> data]

\* -s
FNeg(x) == IF isnan(x) THEN NaN ELSE Rat(-x.n, x.d)

\* app.compute_component: the series negated when lower is better, then scored
compute_component_no_invert(s, invert) ==
    app_percentile_score(s, DefaultLo, DefaultHi)

compute_component(s, invert) ==
    LET t == IF invert THEN [i \in DOMAIN s |-> FNeg(s[i])] ELSE s
    IN  app_percentile_score(t, DefaultLo, DefaultHi)

\* the first of the candidate columns the table has, "None" when it has none
first_column(columns, candidates) ==
    IF \E k \in DOMAIN candidates : candidates[k] \in columns
    THEN candidates[CHOOSE k \in DOMAIN candidates :
             /\ candidates[k] \in columns
             /\ \A l \in 1..(k - 1) : candidates[l] \notin columns]
    ELSE "None"

Feature(label, col, invert) == [label |-> label, col |-> col, invert |-> invert]

\* app.py lines 137-142 and 179-189: the column and the direction of each
\* feature of the level
feature_map(lvl, columns) ==
    IF lvl = "Neighborhoods"
    THEN << Feature("Venues vibrancy", first_column(columns, <<"VV_index", "venues_per_km2">>), FALSE),
            Feature("Mobility", first_column(columns, <<"mobility_score", "connectivity_density">>), FALSE),
            Feature("Playgrounds density", first_column(columns, <<"playgrounds_per_km2">>), FALSE),
            Feature("Green share", first_column(columns, <<"green_share">>), FALSE) >>
    ELSE << Feature("Income", first_column(columns, <<"income_value_eur">>), FALSE),
            Feature("Safety", first_column(columns, <<"crimes_per_1000">>), TRUE),
            Feature("Unemployment", first_column(columns, <<"unemployment_per_1000">>), TRUE),
            Feature("Density", first_column(columns, <<"density_per_km2">>), FALSE),
            Feature("Diversity", first_column(columns, <<"diversity_share">>), FALSE),
            Feature("Green share", first_column(columns, <<"green_share">>), FALSE),
            Feature("Vibrancy", first_column(columns, <<"VV_index", "venues_per_km2">>), FALSE),
            Feature("Mobility", first_column(columns, <<"mobility_score", "connectivity_density">>), FALSE),
            Feature("Playgrounds density", first_column(columns, <<"playgrounds_per_km2">>), FALSE) >>

\* the features whose column the table has
features(lvl, g) ==
    SelectSeq(feature_map(lvl, DOMAIN g.data), LAMBDA f : f.col # "None")

labels(lvl, g) ==
    LET fs == features(lvl, g) IN { fs[k].label : k \in DOMAIN fs }

\* the checkboxes ticked at the start
defaults(lvl) ==
    IF lvl = "Neighborhoods" THEN {"Venues vibrancy", "Mobility"} ELSE {"Green share"}

\* the slider's first position
SliderDefault == 50

\* app.weight_ui: the slider's value for a ticked feature, 0 for the others
weight_ui(items, enabled, importance) ==
    [label \in items |-> IF enabled[label] THEN importance[label] ELSE 0]

\* the component of a feature: at neighborhood level percentile_score of the
\* column, at district level compute_component
component_stored(lvl, g, f) == g.data[f.col]

component(lvl, g, f) ==
    IF lvl = "Neighborhoods"
    THEN app_percentile_score(g.data[f.col], DefaultLo, DefaultHi)
    ELSE compute_component(g.data[f.col], f.invert)

\* the components of the features of positive weight, each times weight / 100
comp_parts(lvl, g, weights_raw) ==
    LET fs == SelectSeq(features(lvl, g), LAMBDA f : weights_raw[f.label] > 0)
    IN  Values([k \in DOMAIN fs |->
            LET c == Values(component(lvl, g, fs[k]))
            IN  Values([i \in 1..g.rows |->
                    FMul(c[i], Rat(weights_raw[fs[k].label], 100))])])

\* pd.concat(comp_parts, axis=1).sum(axis=1) if comp_parts else 0.0, with the
\* sum divided by the total weight
suitability_renormalized(lvl, g, weights_raw) ==
    LET parts == comp_parts(lvl, g, weights_raw)
        total == nansum([k \in DOMAIN parts |->
                     Rat(weights_raw[SelectSeq(features(lvl, g),
                             LAMBDA f : weights_raw[f.label] > 0)[k].label], 100)])
    IN  IF parts = <<>> THEN [i \in 1..g.rows |-> Num(0)]
        ELSE [i \in 1..g.rows |->
                 FDiv(nansum([k \in DOMAIN parts |-> parts[k][i]]), total)]

\* the sum of no parts left null
suitability_no_default(lvl, g, weights_raw) ==
    LET parts == comp_parts(lvl, g, weights_raw)
    IN  IF parts = <<>> THEN [i \in 1..g.rows |-> NaN]
        ELSE [i \in 1..g.rows |-> nansum([k \in DOMAIN parts |-> parts[k][i]])]

\* the row sums with a null part making the sum null
suitability_null_sum(lvl, g, weights_raw) ==
    LET parts == comp_parts(lvl, g, weights_raw)
    IN  IF parts = <<>> THEN [i \in 1..g.rows |-> Num(0)]
        ELSE [i \in 1..g.rows |->
                 IF \E k \in DOMAIN parts : isnan(parts[k][i]) THEN NaN
                 ELSE nansum([k \in DOMAIN parts |-> parts[k][i]])]

\* app.py lines 163 and 214: the row sums of the parts (nulls skipped), 0.0
\* when there is no part
suitability(lvl, g, weights_raw) ==
    LET parts == comp_parts(lvl, g, weights_raw)
    IN  IF parts = <<>> THEN [i \in 1..g.rows |-> Num(0)]
        ELSE [i \in 1..g.rows |-> nansum([k \in DOMAIN parts |-> parts[k][i]])]

\* a result of the session state: present once Show was pressed
NoResult == [present |-> FALSE, suitability |-> <<>>]

\* app.py lines 154-164 and 205-215 with the button pressed whatever it is
button_show_always(pressed, stored, lvl, g, weights_raw) ==
    [present |-> TRUE, suitability |-> suitability(lvl, g, weights_raw)]

\* app.py lines 154-164 and 205-215: a press of Show stores the suitability
\* in the session state, a run without a press leaves the session state
button_show(pressed, stored, lvl, g, weights_raw) ==
    IF pressed
    THEN [present |-> TRUE, suitability |-> suitability(lvl, g, weights_raw)]
    ELSE stored

(***************************************************************************)
(* The columns the builders and aggregators check and read                 *)
(***************************************************************************)
\* no exception
NoError == [kind |-> "none", at |-> "none", names |-> {}]

\* a ValueError raised by the function's own check of its input, with the
\* columns its message names
SchemaError(names) == [kind |-> "ValueError", at |-> "validation", names |-> names]

\* an exception raised while computing, with the columns its message names
LookupError(kind, names) == [kind |-> kind, at |-> "computation", names |-> names]

\* labels_parks.compute_parks_labels: the columns checked are the columns read
compute_parks_labels_columns(df_parks) ==
    LET required == {"district_id", "neighborhood", "size_sqm"}
        missing == required \ df_parks
    IN  IF missing # {} THEN SchemaError(missing) ELSE NoError

\* labels_venues.compute_vibrancy_scores: both tables are checked, the
\* messages name no column
compute_vibrancy_scores_columns(df_features, df_nei_area) ==
    LET req1 == {"district_id", "neighborhood_canon", "n_venues", "n_cuisine_types"}
        req2 == {"district_id", "neighborhood_canon", "area_eff_km2"}
    IN  IF ~(req1 \subseteq df_features) THEN SchemaError({})
        ELSE IF ~(req2 \subseteq df_nei_area) THEN SchemaError({})
        ELSE NoError

\* labels_mobility.compute_mobility_labels: the polygons' keys are checked
\* (the message names the three of them), the points' coordinates are looked
\* for by to_points_gdf
compute_mobility_labels_columns(gdf, df_points) ==
    IF ~({"district_id", "neighborhood_id", "neighborhood"} \subseteq gdf)
    THEN SchemaError({"district_id", "neighborhood_id", "neighborhood"})
    ELSE IF ~({"lat", "lon"} \subseteq df_points)
    THEN LookupError("ValueError", {"lat", "lon"})
    ELSE NoError

\* aggregate.aggregate_mobility_to_district: four columns of nei_labels are
\* checked (the message names none); total_stops and the polygons' district_id
\* and area are read unchecked
aggregate_mobility_to_district_columns(nei_labels, gdf) ==
    LET req == {"district_id", "neighborhood_id", "ubahn_stations", "bus_tram_stops"}
    IN  IF ~(req \subseteq nei_labels) THEN SchemaError({})
        ELSE IF "total_stops" \notin nei_labels
        THEN LookupError("KeyError", {"total_stops"})
        ELSE IF "district_id" \notin gdf
        THEN LookupError("ValueError", {})
        ELSE IF "area_eff_km2" \notin gdf /\ "area_km2" \notin gdf
        THEN LookupError("KeyError", {"area_eff_km2"})
        ELSE NoError

(***************************************************************************)
(* Inputs                                                                  *)
(***************************************************************************)
\* characters the names are drawn from
NameAlphabet ==
    {"a", "A", "s", "1", " ", "-",
     "a_uml", "A_uml", "o_uml", "eszett", "Eszett_cap", "e_acute"}

SeqsUpTo(S, n) == UNION { [1..k -> S] : k \in 0..n }

Names ==
    {NoneName, NaNName} \cup { StrName(s) : s \in SeqsUpTo(NameAlphabet, MaxNameLen) }

CuisineInputs ==
    {NoneName, NaNName, StrName(TestCuisines)}
        \cup { StrName(join(ps)) : ps \in (SeqsUpTo(RawParts, MaxParts) \ {<<>>}) }

(***************************************************************************)
(* canon_nh applied to a name, and again to the key it returned            *)
(***************************************************************************)
\* the variables of the other functions while one function is run
IdleText ==
    /\ name = NoneName
    /\ key = <<>>
    /\ rekey = <<>>
    /\ cuisines = NoneName
    /\ toks = <<>>

IdleScore ==
    /\ series = <<>>
    /\ scores = <<>>
    /\ app_scores = <<>>
    /\ terciles = <<>>

IdleBand ==
    /\ gdf_nei = [area_eff_col |-> TRUE, rows |-> <<>>]
    /\ parks_nei = <<>>
    /\ play_nei = <<>>
    /\ band_out = <<>>
    /\ stops_nei = <<>>
    /\ feat_nei = [columns |-> <<>>, rows |-> <<>>]
    /\ area_nei = [columns |-> <<>>, rows |-> <<>>]

IdleMobility ==
    /\ gdf_neighborhoods = [area_col |-> TRUE, area_eff_col |-> TRUE, rows |-> <<>>]
    /\ df_ubahn = <<>>
    /\ df_bus_tram = <<>>
    /\ mob_out = <<>>
    /\ dist_out = [raised |-> "", rows |-> <<>>]
    /\ gdf_out = [area_col |-> TRUE, area_eff_col |-> TRUE, rows |-> <<>>]

NoTables ==
    [mob |-> <<>>, parks |-> <<>>, plays |-> <<>>, venF |-> <<>>, venV |-> <<>>,
     minimal |-> <<>>, merged |-> <<>>]

IdlePipeline ==
    /\ parks_csv = <<>>
    /\ playgrounds_csv = <<>>
    /\ venues_csv = <<>>
    /\ pipeline_out = NoTables

NoFrame == Frame(0, <<>>)

IdleApp ==
    /\ nei_wide = NoFrame
    /\ dist_wide = NoFrame
    /\ level = "Neighborhoods"
    /\ chk = <<>>
    /\ slider = <<>>
    /\ nei_result = NoResult
    /\ dist_result = NoResult
    /\ pressed_weights = <<>>

IdleSchema ==
    /\ arg_columns = [first |-> {}, second |-> {}]
    /\ raised = NoError

NoFile == [exists |-> FALSE, header |-> <<>>, lines |-> <<>>]

IdleSummary ==
    /\ summary_csv = NoFile
    /\ new_df = [columns |-> <<>>, rows |-> <<>>]
    /\ calls = 0

IdlePoints ==
    /\ points_df = [geometry |-> FALSE, columns |-> <<>>, rows |-> <<>>]
    /\ points_out = [raised |-> "", geometry |-> <<>>]

IdleVibrancy ==
    /\ venues_features = [columns |-> <<>>, rows |-> <<>>]
    /\ nei_area = [columns |-> <<>>, rows |-> <<>>]
    /\ vibrancy_out = [columns |-> <<>>, rows |-> <<>>]

InitCanon ==
    /\ pc = "name"
    /\ name \in Names
    /\ key = <<>>
    /\ rekey = <<>>
    /\ cuisines = NoneName
    /\ toks = <<>>
    /\ IdleScore
    /\ IdleBand
    /\ IdleMobility
    /\ IdlePipeline
    /\ IdleApp
    /\ IdleSchema
    /\ IdleSummary
    /\ IdlePoints
    /\ IdleVibrancy

Canon ==
    /\ pc = "name"
    /\ key' = canon_nh(name)
    /\ pc' = "key"
    /\ UNCHANGED <<name, rekey, cuisines, toks, scoreVars, bandVars, mobVars, pipelineVars, appVars, schemaVars,
                   summaryVars, pointsVars, vibrancyVars>>

CanonAgain ==
    /\ pc = "key"
    /\ rekey' = canon_nh(StrName(key))
    /\ pc' = "rekey"
    /\ UNCHANGED <<name, key, cuisines, toks, scoreVars, bandVars, mobVars, pipelineVars, appVars, schemaVars,
                   summaryVars, pointsVars, vibrancyVars>>

NextCanon == Canon \/ CanonAgain

SpecCanon == InitCanon /\ [][NextCanon]_vars

(***************************************************************************)
(* tokenize_cuisines applied to a cuisine field                            *)
(***************************************************************************)
InitCuisine ==
    /\ pc = "cuisine"
    /\ cuisines \in CuisineInputs
    /\ toks = <<>>
    /\ name = NoneName
    /\ key = <<>>
    /\ rekey = <<>>
    /\ IdleScore
    /\ IdleBand
    /\ IdleMobility
    /\ IdlePipeline
    /\ IdleApp
    /\ IdleSchema
    /\ IdleSummary
    /\ IdlePoints
    /\ IdleVibrancy

Tokenize ==
    /\ pc = "cuisine"
    /\ toks' = tokenize_cuisines(cuisines)
    /\ pc' = "tokens"
    /\ UNCHANGED <<name, key, rekey, cuisines, scoreVars, bandVars, mobVars, pipelineVars, appVars, schemaVars,
                   summaryVars, pointsVars, vibrancyVars>>

NextCuisine == Tokenize

SpecCuisine == InitCuisine /\ [][NextCuisine]_vars

(***************************************************************************)
(* Properties of canon_nh                                                  *)
(***************************************************************************)
Count(s, ch) == Cardinality({ i \in DOMAIN s : s[i] = ch })

TableKeys == { UMLAUT_MAP[i][1] : i \in DOMAIN UMLAUT_MAP }

\* the same letter in the other case
swapcase_ch(ch) ==
    IF ch \in AsciiUpper
    THEN AsciiLowerSeq[CHOOSE i \in DOMAIN AsciiUpperSeq : AsciiUpperSeq[i] = ch]
    ELSE IF ch \in AsciiLower
    THEN AsciiUpperSeq[CHOOSE i \in DOMAIN AsciiLowerSeq : AsciiLowerSeq[i] = ch]
    ELSE CASE ch = "A_uml" -> "a_uml"
           [] ch = "a_uml" -> "A_uml"
           [] ch = "O_uml" -> "o_uml"
           [] ch = "o_uml" -> "O_uml"
           [] ch = "U_uml" -> "u_uml"
           [] ch = "u_uml" -> "U_uml"
           [] ch = "Eszett_cap" -> "eszett"
           [] ch = "eszett" -> "Eszett_cap"
           [] ch = "E_acute" -> "e_acute"
           [] ch = "e_acute" -> "E_acute"
           [] OTHER -> ch

\* the ASCII digraphs a table letter is written as
Digraphs(ch) ==
    CASE ch \in {"a_uml", "A_uml"} -> { <<"a","e">>, <<"A","e">>, <<"A","E">> }
      [] ch \in {"o_uml", "O_uml"} -> { <<"o","e">>, <<"O","e">>, <<"O","E">> }
      [] ch \in {"u_uml", "U_uml"} -> { <<"u","e">>, <<"U","e">>, <<"U","E">> }
      [] ch \in {"eszett", "Eszett_cap"} -> { <<"s","s">>, <<"S","S">> }
      [] OTHER -> {}

\* the names that differ from s in the case of one letter, in surrounding
\* whitespace, in one inserted punctuation mark or space, or in one table
\* letter written as its digraph
Variants(s) ==
    { <<" ">> \o s, s \o <<" ">>, <<" ">> \o s \o <<" ">> }
    \cup { SubSeq(s, 1, i) \o <<p>> \o SubSeq(s, i + 1, Len(s)) :
             i \in 0..Len(s), p \in {"-", ".", " "} }
    \cup { [s EXCEPT ![i] = swapcase_ch(s[i])] : i \in DOMAIN s }
    \cup UNION { { SubSeq(s, 1, i - 1) \o d \o SubSeq(s, i + 1, Len(s)) :
                     d \in Digraphs(s[i]) } : i \in DOMAIN s }

\* C1: canonicalization is idempotent: canon_nh(canon_nh(x)) = canon_nh(x)
\* for every input x.
C1_Idempotent == pc = "rekey" => rekey = key

C1_Witness ==
    /\ pc = "rekey"
    /\ name = StrName(<<" ", "A_uml", "-">>)
    /\ key = <<"a", "e">>
    /\ rekey = <<"a", "e">>

\* C2 as stated: the key holds only ASCII lowercase letters and ASCII digits.
C2_AsciiOnly ==
    pc \in {"key", "rekey"} =>
        \A i \in DOMAIN key : key[i] \in AsciiLower \cup AsciiDigit

\* C2 as amended: every character of the key is a letter or digit for
\* str.isalnum, none an ASCII capital and none a letter of the folding table;
\* a letter outside ASCII and outside the table is kept, lowercased.
C2_AlnumOnly ==
    pc \in {"key", "rekey"} =>
        /\ \A i \in DOMAIN key :
              /\ isalnum(key[i])
              /\ key[i] \notin AsciiUpper
              /\ key[i] \notin TableKeys
              /\ key[i] \notin Whitespace \cup Punctuation
        /\ Count(key, "e_acute") =
              Count(str(name), "e_acute") + Count(str(name), "E_acute")

C2_Witness ==
    /\ pc = "key"
    /\ name = StrName(<<"e_acute", "-", "A">>)
    /\ key = <<"e_acute", "a">>

\* C3 as stated: every variant of a name in letter case, surrounding
\* whitespace, inserted punctuation or spaces, or a table letter written as
\* its digraph has the key of the name, and folding before lowercasing gives
\* the same key as lowercasing before folding.
C3_VariantsAndOrder ==
    (pc \in {"key", "rekey"} /\ name.kind = "str") =>
        /\ \A y \in Variants(name.s) : canon_nh(StrName(y)) = key
        /\ canon_nh_fold_first(name) = key

\* C3 as amended: the variants have the key of the name; folding before
\* lowercasing gives the same key for every name without the capital sharp s,
\* which the folding table lacks.
C3_VariantsSameKey ==
    (pc \in {"key", "rekey"} /\ name.kind = "str") =>
        /\ \A y \in Variants(name.s) : canon_nh(StrName(y)) = key
        /\ ("Eszett_cap" \notin Range(name.s) => canon_nh_fold_first(name) = key)

C3_Witness ==
    /\ pc = "key"
    /\ name = StrName(<<"A_uml", "-", "eszett">>)
    /\ key = <<"a", "e", "s", "s">>
    /\ canon_nh(StrName(<<"a", "e", "S", "S", " ">>)) = key

\* C4: canon_nh returns the empty string for None and for the missing-value
\* marker NaN.
C4_MissingGivesEmpty ==
    (pc \in {"key", "rekey"} /\ name.kind \in {"None", "NaN"}) => key = <<>>

(***************************************************************************)
(* Properties of tokenize_cuisines                                         *)
(***************************************************************************)
\* C5: every returned token is in the national-cuisine vocabulary and is no
\* dish word; a part's token is returned iff its normalized form is in the
\* vocabulary, whatever the case of the field; the field of tests/test_text.py
\* gives exactly italian, japanese, vietnamese.
C5_NationalsOnly ==
    (pc = "tokens" /\ cuisines.kind = "str") =>
        /\ \A i \in DOMAIN toks :
              toks[i] \in national_cuisine_vocab /\ toks[i] \notin _EXCLUDE_TOKENS
        /\ \A p \in Range(split(cuisines.s)) :
              _normalize_token(p) \in national_cuisine_vocab
                  <=> _normalize_token(p) \in Range(toks)
        /\ tokenize_cuisines(StrName(str_lower(cuisines.s))) = toks
        /\ cuisines.s = TestCuisines =>
              Range(toks) = { <<"i","t","a","l","i","a","n">>,
                              <<"j","a","p","a","n","e","s","e">>,
                              <<"v","i","e","t","n","a","m","e","s","e">> }

C5_Witness ==
    /\ pc = "tokens"
    /\ cuisines = StrName(TestCuisines)
    /\ toks = << <<"i","t","a","l","i","a","n">>,
                 <<"j","a","p","a","n","e","s","e">>,
                 <<"v","i","e","t","n","a","m","e","s","e">> >>

(***************************************************************************)
(* percentile_score and tercile_labels applied to a series                 *)
(***************************************************************************)
\* null, a value under the range floor, the connectivity density 1.7 of a
\* neighborhood of 1 km2 with 2 heavy-rail and 1 surface stop, and 0..MaxVal
FloatValues == {NaN, FDiv(Eps, Num(2)), Rat(17, 10)} \cup { Num(v) : v \in 0..MaxVal }

SeriesInputs == SeqsUpTo(FloatValues, MaxSeries)

InitScore ==
    /\ pc = "series"
    /\ series \in SeriesInputs
    /\ scores = <<>>
    /\ app_scores = <<>>
    /\ terciles = <<>>
    /\ IdleText
    /\ IdleBand
    /\ IdleMobility
    /\ IdlePipeline
    /\ IdleApp
    /\ IdleSchema
    /\ IdleSummary
    /\ IdlePoints
    /\ IdleVibrancy

PercentileScore ==
    /\ pc = "series"
    /\ scores' = percentile_score(series, DefaultLo, DefaultHi)
    /\ pc' = "scores"
    /\ UNCHANGED <<series, app_scores, terciles, textVars, bandVars, mobVars, pipelineVars, appVars, schemaVars,
                   summaryVars, pointsVars, vibrancyVars>>

AppPercentileScore ==
    /\ pc = "series"
    /\ app_scores' = app_percentile_score(series, DefaultLo, DefaultHi)
    /\ pc' = "app_scores"
    /\ UNCHANGED <<series, scores, terciles, textVars, bandVars, mobVars, pipelineVars, appVars, schemaVars,
                   summaryVars, pointsVars, vibrancyVars>>

TercileLabels ==
    /\ pc = "series"
    /\ terciles' = tercile_labels(series, MobilityLabels)
    /\ pc' = "terciles"
    /\ UNCHANGED <<series, scores, app_scores, textVars, bandVars, mobVars, pipelineVars, appVars, schemaVars,
                   summaryVars, pointsVars, vibrancyVars>>

NextScore == PercentileScore \/ AppPercentileScore \/ TercileLabels

SpecScore == InitScore /\ [][NextScore]_vars

(***************************************************************************)
(* Properties of the scoring primitives                                    *)
(***************************************************************************)
\* a score is null or a number in [0, 100]
InScoreRange(x) == isnan(x) \/ (isfinite(x) /\ FLe(Num(0), x) /\ FLe(x, Num(100)))

ScoresWellFormed(out) ==
    /\ DOMAIN out = DOMAIN series
    /\ \A i \in DOMAIN out : InScoreRange(out[i])
    /\ \A i \in DOMAIN out : isnan(series[i]) => isnan(out[i])
    /\ (\A i \in DOMAIN series : isnan(series[i])) =>
           (\A i \in DOMAIN out : isnan(out[i]))

\* C6: every value percentile_score returns is null or a number in [0,100];
\* a null input value gets a null score, and an all-null series gets only
\* null scores (both the labels_* and the app.py percentile_score).
C6_ScoreRange ==
    /\ pc = "scores" => ScoresWellFormed(scores)
    /\ pc = "app_scores" => ScoresWellFormed(app_scores)

C6_Witness ==
    /\ pc = "scores"
    /\ series = <<NaN, Num(0), Num(3), Num(1)>>
    /\ scores = <<NaN, Num(0), Num(100), Rat(100, 3)>>

\* all non-null values of the series are equal, and there is one
ZeroVariance(s) ==
    /\ \E i \in DOMAIN s : ~isnan(s[i])
    /\ \A i, j \in DOMAIN s : (~isnan(s[i]) /\ ~isnan(s[j])) => s[i] = s[j]

\* C7 as stated: a zero-variance column yields null scores.
C7_ZeroVarianceNull ==
    /\ (pc = "scores" /\ ZeroVariance(series)) =>
           \A i \in DOMAIN scores : isnan(scores[i])
    /\ (pc = "app_scores" /\ ZeroVariance(series)) =>
           \A i \in DOMAIN app_scores : isnan(app_scores[i])

ZeroVarianceZero(out) ==
    /\ DOMAIN out = DOMAIN series
    /\ \A i \in DOMAIN out :
          IF isnan(series[i]) THEN isnan(out[i]) ELSE out[i] = Num(0)

\* C7 as amended: a zero-variance column yields the score 0 for every non-null
\* value and null for every null value: the range is floored at 1e-9, so
\* nothing is divided by zero.
C7_ZeroVarianceZero ==
    /\ (pc = "scores" /\ ZeroVariance(series)) => ZeroVarianceZero(scores)
    /\ (pc = "app_scores" /\ ZeroVariance(series)) => ZeroVarianceZero(app_scores)

C7_Witness ==
    /\ pc = "scores"
    /\ series = <<Num(2), NaN, Num(2)>>
    /\ scores = <<Num(0), NaN, Num(0)>>

\* C8: tercile_labels gives the mid label to a null value, the low label to
\* v <= q1, the high label to v >= q2 (and v > q1), the mid label otherwise,
\* q1 and q2 being the 33.333rd and 66.666th percentiles of the non-null
\* values; a value exactly at q1 is low, a value exactly at q2 is high.
C8_TercileRule ==
    pc = "terciles" =>
        LET q1 == nanpercentile(series, TercileLo)
            q2 == nanpercentile(series, TercileHi)
            high == MobilityLabels[1]
            mid == MobilityLabels[2]
            low == MobilityLabels[3]
        IN  /\ DOMAIN terciles = DOMAIN series
            /\ \A i \in DOMAIN series :
                  LET v == series[i]
                  IN  /\ isnan(v) => terciles[i] = mid
                      /\ FLe(v, q1) => terciles[i] = low
                      /\ (FGe(v, q2) /\ FGt(v, q1)) => terciles[i] = high
                      /\ (FGt(v, q1) /\ FLt(v, q2)) => terciles[i] = mid
                      /\ (~isnan(v) /\ v = q1) => terciles[i] = low
                      /\ (~isnan(v) /\ v = q2 /\ v # q1) => terciles[i] = high

C8_Witness ==
    /\ pc = "terciles"
    /\ series = <<NaN, Num(1), Num(3), Num(3)>>
    /\ nanpercentile(series, TercileHi) = Num(3)
    /\ terciles = <<"moderate", "remote", "well-connected", "well-connected">>

(***************************************************************************)
(* Band labelling of the parks and playgrounds tables, by neighborhood and *)
(* by district                                                             *)
(***************************************************************************)
\* display names of the polygons, by position
NeighborhoodNames ==
    << <<"A", "a_uml", " ", "1">>, <<"s", "-", "A_uml">>,
       <<"eszett", "a">>, <<"a", "s">> >>

NeighborhoodName(i) == NeighborhoodNames[((i - 1) % Len(NeighborhoodNames)) + 1]

DistrictIds == {1, 2}

\* the areas (km2) a polygon is drawn with: a degenerate polygon and a large one
AreaChoices == {Num(0), Num(10)}

\* a neighborhood: its district, its area, and the amount k of its theme
\* (a green area of k/10 km2, k playgrounds, k heavy-rail and k surface stops,
\* k venues of up to 2 cuisine types)
NeiChoices ==
    [district_id : DistrictIds, area_km2 : AreaChoices, amount : 0..MaxAmount]

\* tables list their neighborhoods by district
ByDistrict(rows) ==
    \A i, j \in DOMAIN rows : i < j => rows[i].district_id <= rows[j].district_id

NeiTables == { rows \in SeqsUpTo(NeiChoices, MaxNei) : ByDistrict(rows) }

InitBand ==
    /\ pc = "tables"
    /\ \E rows \in NeiTables, col \in BOOLEAN :
          /\ gdf_nei =
                [area_eff_col |-> col,
                 rows |-> [i \in DOMAIN rows |->
                     [district_id |-> rows[i].district_id,
                      area_km2 |-> rows[i].area_km2,
                      area_eff_km2 |-> clip_lower(rows[i].area_km2, AreaFloor)]]]
          /\ parks_nei =
                [i \in DOMAIN rows |->
                    [district_id |-> rows[i].district_id,
                     green_area_km2 |-> Rat(rows[i].amount, 10),
                     area_km2 |-> rows[i].area_km2]]
          /\ play_nei =
                [i \in DOMAIN rows |->
                    [district_id |-> rows[i].district_id,
                     n_playgrounds |-> rows[i].amount,
                     area_eff_km2 |-> clip_lower(rows[i].area_km2, AreaFloor)]]
          /\ stops_nei =
                [i \in DOMAIN rows |->
                    [district_id |-> rows[i].district_id,
                     neighborhood_id |-> i,
                     ubahn_stations |-> rows[i].amount,
                     bus_tram_stops |-> rows[i].amount,
                     total_stops |-> 2 * rows[i].amount]]
          /\ feat_nei =
                DataFrame(KeyColumns \o <<"n_venues", "n_cuisine_types">>,
                    [i \in DOMAIN rows |->
                        [district_id |-> rows[i].district_id,
                         neighborhood_canon |-> canon_nh(StrName(NeighborhoodName(i))),
                         n_venues |-> Num(rows[i].amount),
                         n_cuisine_types |->
                             Num(IF rows[i].amount > 2 THEN 2 ELSE rows[i].amount)]])
          /\ area_nei =
                DataFrame(KeyColumns \o <<"area_eff_km2">>,
                    [i \in DOMAIN rows |->
                        [district_id |-> rows[i].district_id,
                         neighborhood_canon |-> canon_nh(StrName(NeighborhoodName(i))),
                         area_eff_km2 |-> clip_lower(rows[i].area_km2, AreaFloor)]])
    /\ band_out = <<>>
    /\ IdleText
    /\ IdleScore
    /\ IdleMobility
    /\ IdlePipeline
    /\ IdleApp
    /\ IdleSchema
    /\ IdleSummary
    /\ IdlePoints
    /\ IdleVibrancy

LabelGreenShare ==
    /\ pc = "tables"
    /\ band_out' = label_green_share(parks_nei)
    /\ pc' = "parks"
    /\ UNCHANGED <<gdf_nei, parks_nei, play_nei, stops_nei, feat_nei, area_nei, textVars, scoreVars, mobVars, pipelineVars, appVars, schemaVars,
                   summaryVars, pointsVars, vibrancyVars>>

LabelPlaygroundsDensity ==
    /\ pc = "tables"
    /\ band_out' = label_playgrounds_density(play_nei)
    /\ pc' = "playgrounds"
    /\ UNCHANGED <<gdf_nei, parks_nei, play_nei, stops_nei, feat_nei, area_nei, textVars, scoreVars, mobVars, pipelineVars, appVars, schemaVars,
                   summaryVars, pointsVars, vibrancyVars>>

AggregateParksToDistrict ==
    /\ pc = "tables"
    /\ band_out' = aggregate_parks_to_district(parks_nei, gdf_nei)
    /\ pc' = "district_parks"
    /\ UNCHANGED <<gdf_nei, parks_nei, play_nei, stops_nei, feat_nei, area_nei, textVars, scoreVars, mobVars, pipelineVars, appVars, schemaVars,
                   summaryVars, pointsVars, vibrancyVars>>

AggregatePlaygroundsToDistrict ==
    /\ pc = "tables"
    /\ band_out' = aggregate_playgrounds_to_district(play_nei, gdf_nei)
    /\ pc' = "district_playgrounds"
    /\ UNCHANGED <<gdf_nei, parks_nei, play_nei, stops_nei, feat_nei, area_nei, textVars, scoreVars, mobVars, pipelineVars, appVars, schemaVars,
                   summaryVars, pointsVars, vibrancyVars>>

\* the district roll-up of the stop counts, with the polygons and their areas
AggregateStopsToDistrict ==
    /\ pc = "tables"
    /\ band_out' =
          aggregate_mobility_to_district(stops_nei,
              [area_col |-> TRUE, area_eff_col |-> gdf_nei.area_eff_col,
               rows |-> gdf_nei.rows]).rows
    /\ pc' = "district_stops"
    /\ UNCHANGED <<gdf_nei, parks_nei, play_nei, stops_nei, feat_nei, area_nei, textVars,
                   scoreVars, mobVars, pipelineVars, appVars, schemaVars,
                   summaryVars, pointsVars, vibrancyVars>>

VibrancyOfFeatures ==
    /\ pc = "tables"
    /\ band_out' = compute_vibrancy_scores(feat_nei, area_nei).rows
    /\ pc' = "venues"
    /\ UNCHANGED <<gdf_nei, parks_nei, play_nei, stops_nei, feat_nei, area_nei, textVars,
                   scoreVars, mobVars, pipelineVars, appVars, schemaVars,
                   summaryVars, pointsVars, vibrancyVars>>

NextBand ==
    \/ LabelGreenShare
    \/ LabelPlaygroundsDensity
    \/ AggregateParksToDistrict
    \/ AggregatePlaygroundsToDistrict
    \/ AggregateStopsToDistrict
    \/ VibrancyOfFeatures

SpecBand == InitBand /\ [][NextBand]_vars

\* C9: band labelling (half width 0.03 for parks, 0.30 for playgrounds, by
\* neighborhood and by district) gives "average" to a null value, "below
\* average" to v < median - half_width, "above average" to
\* v > median + half_width and "average" otherwise, the median being taken
\* over the non-null values; a value exactly at median +/- half_width is
\* "average".
BandRule(out, half_width) ==
    LET med == nanmedian(Column(out, "value"))
    IN  \A i \in DOMAIN out :
           LET v == out[i].value
           IN  out[i].label =
                   IF isnan(v) THEN "average"
                   ELSE IF FLt(v, FSub(med, half_width)) THEN "below average"
                   ELSE IF FGt(v, FAdd(med, half_width)) THEN "above average"
                   ELSE "average"

C9_BandRule ==
    /\ pc \in {"parks", "district_parks"} => BandRule(band_out, ParksHalfWidth)
    /\ pc \in {"playgrounds", "district_playgrounds"} =>
           BandRule(band_out, PlaygroundsHalfWidth)
    /\ pc = "parks" => DOMAIN band_out = DOMAIN parks_nei
    /\ pc = "playgrounds" => DOMAIN band_out = DOMAIN play_nei

\* two districts with green shares 0 and 0.06: both exactly on the edge of the
\* band around the median 0.03
C9_Witness ==
    /\ pc = "district_parks"
    /\ Len(band_out) = 2
    /\ band_out[1].value = Num(0)
    /\ band_out[2].value = Rat(6, 100)
    /\ band_out[1].label = "average"
    /\ band_out[2].label = "average"

(***************************************************************************)
(* compute_mobility_labels applied to polygons and two tables of points    *)
(***************************************************************************)
\* the areas (km2) of the geometries: one under the floor 0.20, one over it
GeomAreas == {Rat(1, 10), Num(1)}

\* the districts and areas of k polygons: the polygons are listed by district,
\* the first in district 1
PolygonChoices(k) ==
    { a \in [1..k -> [district_id : DistrictIds, geom_km2 : GeomAreas]] :
        /\ k > 0 => a[1].district_id = 1
        /\ \A i, j \in 1..k : i < j => a[i].district_id <= a[j].district_id }

\* polygon i covers the cell <<i, 0>>: the polygons are disjoint, and the
\* cell <<0, 0>> lies in none
PolygonTables ==
    { [i \in 1..n |->
          [district_id |-> a[i].district_id,
           neighborhood_id |-> i,
           neighborhood |-> NeighborhoodName(i),
           geometry |-> {<<i, 0>>},
           geom_km2 |-> a[i].geom_km2,
           area_km2 |-> NaN,
           area_eff_km2 |-> NaN]] :
        <<n, a>> \in UNION { {k} \X PolygonChoices(k) : k \in 0..MaxPolys } }

\* tables of points lying in the cells <<0, 0>> .. <<n, 0>>, listed from west
\* to east (the join and the counts of its rows do not look at the order of
\* the points)
PointTables(n) ==
    { df \in SeqsUpTo([lon : 0..n, lat : {0}], MaxPts) :
        \A i, j \in DOMAIN df : i < j => df[i].lon <= df[j].lon }

\* the polygons come as loaded (no area columns) or as compute_area_km2 left
\* them
InitMobility ==
    /\ pc = "inputs"
    /\ \E rows \in PolygonTables, computed \in BOOLEAN :
          LET raw == [area_col |-> FALSE, area_eff_col |-> FALSE, rows |-> rows]
              tables == PointTables(Len(rows))
          IN  /\ gdf_neighborhoods =
                     IF computed THEN compute_area_km2(raw) ELSE raw
              /\ df_ubahn \in tables
              /\ df_bus_tram \in tables
    /\ mob_out = <<>>
    /\ dist_out = [raised |-> "", rows |-> <<>>]
    /\ gdf_out = [area_col |-> TRUE, area_eff_col |-> TRUE, rows |-> <<>>]
    /\ IdleText
    /\ IdleScore
    /\ IdleBand
    /\ IdlePipeline
    /\ IdleApp
    /\ IdleSchema
    /\ IdleSummary
    /\ IdlePoints
    /\ IdleVibrancy

ComputeMobilityLabels ==
    /\ pc = "inputs"
    /\ mob_out' = compute_mobility_labels(gdf_neighborhoods, df_ubahn, df_bus_tram)
    /\ pc' = "mobility"
    /\ UNCHANGED <<gdf_neighborhoods, df_ubahn, df_bus_tram, dist_out, gdf_out,
                   textVars, scoreVars, bandVars, pipelineVars, appVars, schemaVars,
                   summaryVars, pointsVars, vibrancyVars>>

\* the district roll-up of the table compute_mobility_labels returned, with the
\* polygons it was computed from
AggregateMobilityToDistrict ==
    /\ pc = "mobility"
    /\ dist_out' = aggregate_mobility_to_district(mob_out, gdf_neighborhoods)
    /\ pc' = "district_mobility"
    /\ UNCHANGED <<gdf_neighborhoods, df_ubahn, df_bus_tram, mob_out, gdf_out,
                   textVars, scoreVars, bandVars, pipelineVars, appVars, schemaVars,
                   summaryVars, pointsVars, vibrancyVars>>

NextMobility ==
    \/ ComputeMobilityLabels
    \/ AggregateMobilityToDistrict

SpecMobility == InitMobility /\ [][NextMobility]_vars

\* the number of points of a table that lie within a polygon
PointsIn(df, polygon) ==
    Cardinality({ j \in DOMAIN df : <<df[j].lon, df[j].lat>> \in polygon.geometry })

\* C10: compute_mobility_labels returns exactly one row per input polygon;
\* its ubahn_stations and bus_tram_stops are the numbers of heavy-rail and of
\* surface points within that polygon (0 when none), total_stops is their
\* sum, and connectivity_density is
\* (0.7 * ubahn_stations + 0.3 * bus_tram_stops) / area_eff_km2, with
\* area_eff_km2 the polygon's area floored at 0.20.
C10_MobilityRows ==
    pc = "mobility" =>
        /\ DOMAIN mob_out = DOMAIN gdf_neighborhoods.rows
        /\ \A i \in DOMAIN mob_out :
              LET polygon == gdf_neighborhoods.rows[i]
                  row == mob_out[i]
                  area_eff_km2 ==
                      IF FLt(polygon.geom_km2, Rat(20, 100)) THEN Rat(20, 100)
                      ELSE polygon.geom_km2
              IN  /\ row.neighborhood_id = polygon.neighborhood_id
                  /\ row.district_id = polygon.district_id
                  /\ row.neighborhood = polygon.neighborhood
                  /\ row.ubahn_stations = PointsIn(df_ubahn, polygon)
                  /\ row.bus_tram_stops = PointsIn(df_bus_tram, polygon)
                  /\ row.total_stops = row.ubahn_stations + row.bus_tram_stops
                  /\ row.connectivity_density =
                         FDiv(Rat(7 * row.ubahn_stations + 3 * row.bus_tram_stops, 10),
                              area_eff_km2)

\* two polygons of 1 km2; two heavy-rail points and one surface point in the
\* first, none in the second: densities 1.7 and 0
C10_Witness ==
    /\ pc = "mobility"
    /\ Len(mob_out) = 2
    /\ mob_out[1].ubahn_stations = 2
    /\ mob_out[1].bus_tram_stops = 1
    /\ mob_out[1].total_stops = 3
    /\ mob_out[1].connectivity_density = Rat(17, 10)
    /\ mob_out[2].ubahn_stations = 0
    /\ mob_out[2].bus_tram_stops = 0
    /\ mob_out[2].connectivity_density = Num(0)
    /\ mob_out[2].mobility_label = "remote"

\* sums over a set of indices
RECURSIVE SumInt(_, _)
SumInt(f, S) ==
    IF S = {} THEN 0
    ELSE LET x == CHOOSE y \in S : TRUE IN f[x] + SumInt(f, S \ {x})

RECURSIVE SumFloat(_, _)
SumFloat(f, S) ==
    IF S = {} THEN Num(0)
    ELSE LET x == CHOOSE y \in S : TRUE IN FAdd(f[x], SumFloat(f, S \ {x}))

\* the polygons of a district
Members(d) ==
    { i \in DOMAIN gdf_neighborhoods.rows :
        gdf_neighborhoods.rows[i].district_id = d }

DeclaredArea == Num(2)

\* the polygons come as loaded without an area column, as loaded with an
\* area_km2 column of the source (null in some rows), or as compute_area_km2
\* left them
InitPolygons ==
    /\ pc = "polygons"
    /\ \E rows \in PolygonTables, format \in {"raw", "declared", "computed"} :
          LET raw == [area_col |-> FALSE, area_eff_col |-> FALSE, rows |-> rows]
          IN  \/ /\ format = "raw"
                 /\ gdf_neighborhoods = raw
              \/ /\ format = "computed"
                 /\ gdf_neighborhoods = compute_area_km2(raw)
              \/ /\ format = "declared"
                 /\ \E declared \in [DOMAIN rows -> {NaN, DeclaredArea}] :
                       gdf_neighborhoods =
                           [area_col |-> TRUE,
                            area_eff_col |-> FALSE,
                            rows |-> [i \in DOMAIN rows |->
                                [rows[i] EXCEPT !.area_km2 = declared[i]]]]
    /\ df_ubahn = <<>>
    /\ df_bus_tram = <<>>
    /\ mob_out = <<>>
    /\ dist_out = [raised |-> "", rows |-> <<>>]
    /\ gdf_out = [area_col |-> TRUE, area_eff_col |-> TRUE, rows |-> <<>>]
    /\ IdleText
    /\ IdleScore
    /\ IdleBand
    /\ IdlePipeline
    /\ IdleApp
    /\ IdleSchema
    /\ IdleSummary
    /\ IdlePoints
    /\ IdleVibrancy

\* g = gdf binds the caller's table itself (geo.py 21), so the column
\* assignments at 26-30 are made on the caller's table, which is also returned
ComputeAreaKm2 ==
    /\ pc = "polygons"
    /\ gdf_out' = compute_area_km2(gdf_neighborhoods)
    /\ gdf_neighborhoods' = gdf_out'
    /\ pc' = "area"
    /\ UNCHANGED <<df_ubahn, df_bus_tram, mob_out, dist_out,
                   textVars, scoreVars, bandVars, pipelineVars, appVars, schemaVars,
                   summaryVars, pointsVars, vibrancyVars>>

DissolveByDistrict ==
    /\ pc = "polygons"
    /\ gdf_out' = dissolve_by_district(gdf_neighborhoods)
    /\ pc' = "dissolved"
    /\ UNCHANGED <<gdf_neighborhoods, df_ubahn, df_bus_tram, mob_out, dist_out,
                   textVars, scoreVars, bandVars, pipelineVars, appVars, schemaVars,
                   summaryVars, pointsVars, vibrancyVars>>

NextPolygons ==
    \/ ComputeAreaKm2
    \/ DissolveByDistrict

SpecPolygons == InitPolygons /\ [][NextPolygons]_vars

\* the most raw theme records (parks, green spaces and venues together)
MaxRecords == 2

\* a second spelling of NeighborhoodNames[1], with the same canonical key
AliasName == <<"a", "a", "e", "-", "1">>

\* the neighborhoods the raw records name: the first polygon's (spelled as the
\* records spell it), and the second's in either district
RecordKeys ==
    << [district_id |-> 1, neighborhood |-> StrName(<<"A", "a_uml", "1">>)],
       [district_id |-> 1, neighborhood |-> StrName(NeighborhoodNames[2])],
       [district_id |-> 2, neighborhood |-> StrName(NeighborhoodNames[2])] >>

\* what the raw records say besides their neighborhood: a park's size (sqm),
\* a green space's type, a venue's cuisine
ParkSizes == <<100000>>
GreenAreaTypes ==
    << StrName(<<"S", "p", "i", "e", "l", "p", "l", "a", "t", "z">>),
       StrName(<<"P", "a", "r", "k">>) >>
VenueCuisines ==
    << StrName(<<"I", "t", "a", "l", "i", "a", "n">>),
       StrName(<<"d", "o", "n", "e", "r">>) >>

\* a record's theme and the place of its value in the theme's list
RecordAttributes ==
    << [theme |-> "parks", value |-> 1],
       [theme |-> "playgrounds", value |-> 1],
       [theme |-> "playgrounds", value |-> 2],
       [theme |-> "venues", value |-> 1],
       [theme |-> "venues", value |-> 2] >>

RecordChoices ==
    [k \in 1..(Len(RecordKeys) * Len(RecordAttributes)) |->
        LET site == RecordKeys[((k - 1) \div Len(RecordAttributes)) + 1]
            att == RecordAttributes[((k - 1) % Len(RecordAttributes)) + 1]
        IN  [theme |-> att.theme, district_id |-> site.district_id,
             neighborhood |-> site.neighborhood, value |-> att.value]]

\* up to MaxRecords raw records, listed in the order of RecordChoices (the
\* builders group and count them, and do not look at their order)
RecordTables ==
    { [i \in DOMAIN ix |-> RecordChoices[ix[i]]] :
        ix \in { f \in SeqsUpTo(DOMAIN RecordChoices, MaxRecords) :
                    \A i, j \in DOMAIN f : i < j => f[i] <= f[j] } }

theme_records(records, theme) == SelectSeq(records, LAMBDA r : r.theme = theme)

\* the files run_all_preprocessing reads: polygons of 1 km2 (the second may
\* carry a name that canonicalizes like the first's), one or no underground
\* station, and the raw theme records
InitPipeline ==
    /\ pc = "files"
    /\ \E rows \in { t \in PolygonTables : \A i \in DOMAIN t : t[i].geom_km2 = Num(1) },
          alias \in BOOLEAN, records \in RecordTables :
          /\ alias => Len(rows) >= 2
          /\ gdf_neighborhoods =
                 [area_col |-> FALSE, area_eff_col |-> FALSE,
                  rows |-> [i \in DOMAIN rows |->
                               IF alias /\ i = 2
                               THEN [rows[i] EXCEPT !.neighborhood = AliasName]
                               ELSE rows[i]]]
          /\ LET parks == theme_records(records, "parks")
                 plays == theme_records(records, "playgrounds")
                 venues == theme_records(records, "venues")
             IN  /\ parks_csv =
                        [i \in DOMAIN parks |->
                            [district_id |-> parks[i].district_id,
                             neighborhood |-> parks[i].neighborhood,
                             size_sqm |-> ParkSizes[parks[i].value]]]
                 /\ playgrounds_csv =
                        [i \in DOMAIN plays |->
                            [district_id |-> plays[i].district_id,
                             neighborhood |-> plays[i].neighborhood,
                             green_area_type |-> GreenAreaTypes[plays[i].value]]]
                 /\ venues_csv =
                        [i \in DOMAIN venues |->
                            [district_id |-> venues[i].district_id,
                             neighborhood |-> venues[i].neighborhood,
                             cuisine |-> VenueCuisines[venues[i].value]]]
    /\ df_ubahn \in {<<>>, <<[lon |-> 1, lat |-> 0]>>}
    /\ df_bus_tram = <<>>
    /\ mob_out = <<>>
    /\ dist_out = [raised |-> "", rows |-> <<>>]
    /\ gdf_out = [area_col |-> FALSE, area_eff_col |-> FALSE, rows |-> <<>>]
    /\ pipeline_out = NoTables
    /\ IdleText
    /\ IdleScore
    /\ IdleBand
    /\ IdleApp
    /\ IdleSchema
    /\ IdleSummary
    /\ IdlePoints
    /\ IdleVibrancy

\* pipeline.run_all_preprocessing on the files
RunAllPreprocessing ==
    /\ pc = "files"
    /\ pipeline_out' = run_all_preprocessing(gdf_neighborhoods, df_ubahn, df_bus_tram,
                                             parks_csv, playgrounds_csv, venues_csv)
    /\ pc' = "preprocessed"
    /\ UNCHANGED <<mobVars, parks_csv, playgrounds_csv, venues_csv,
                   textVars, scoreVars, bandVars, appVars, schemaVars,
                   summaryVars, pointsVars, vibrancyVars>>

NextPipeline == RunAllPreprocessing

SpecPipeline == InitPipeline /\ [][NextPipeline]_vars

\* the polygons of the neighborhoods file
Polygons == gdf_neighborhoods.rows

\* the rows of a merged table that carry the identity of polygon i
RowsOf(df, i) ==
    { k \in DOMAIN df.rows :
        /\ df.rows[k]["district_id"] = Polygons[i].district_id
        /\ df.rows[k]["neighborhood_id"] = Polygons[i].neighborhood_id
        /\ df.rows[k]["neighborhood"] = Polygons[i].neighborhood }

OneRowPerPolygon(df) ==
    /\ Len(df.rows) = Len(Polygons)
    /\ \A i \in DOMAIN Polygons : Cardinality(RowsOf(df, i)) = 1

\* a theme table has a record for the neighborhood of a merged row
HasRecord(theme, r) ==
    \E k \in DOMAIN theme.rows : key_of(theme.rows[k]) = key_of(r)

\* the columns of a theme are null in the rows whose neighborhood the theme's
\* table does not hold
NullWhereMissing ==
    /\ \A k \in DOMAIN pipeline_out.minimal.rows :
          LET r == pipeline_out.minimal.rows[k]
          IN  /\ ~HasRecord(pipeline_out.parks, r) =>
                    /\ r["green_area_km2"] = NaN
                    /\ r["green_share"] = NaN
                    /\ r["green_share_label"] = NA
              /\ ~HasRecord(pipeline_out.plays, r) =>
                    /\ r["n_playgrounds"] = NaN
                    /\ r["playgrounds_per_km2"] = NaN
                    /\ r["playgrounds_density_label"] = NA
    /\ \A k \in DOMAIN pipeline_out.merged.rows :
          LET r == pipeline_out.merged.rows[k]
          IN  /\ ~HasRecord(pipeline_out.parks, r) => r["green_share"] = NaN
              /\ ~HasRecord(pipeline_out.plays, r) => r["n_playgrounds"] = NaN
              /\ ~HasRecord(pipeline_out.venF, r) =>
                    /\ r["n_venues"] = NaN
                    /\ r["V_score"] = NaN
                    /\ r["VV_index"] = NaN
                    /\ r["vibrancy_label"] = NA

\* no two polygons of a district have the same canonical name key
UniqueCanonKeys ==
    \A i, j \in DOMAIN Polygons :
        (/\ Polygons[i].district_id = Polygons[j].district_id
         /\ canon_nh(StrName(Polygons[i].neighborhood))
                = canon_nh(StrName(Polygons[j].neighborhood))) => i = j

\* C13 as stated: the minimal and the full table hold exactly one row per
\* polygon of the neighborhoods file (the polygons' identities being unique),
\* with nulls where a theme has no record for the polygon
C13_OneRowPerPolygon ==
    pc = "preprocessed" =>
        /\ OneRowPerPolygon(pipeline_out.minimal)
        /\ OneRowPerPolygon(pipeline_out.merged)
        /\ NullWhereMissing

\* C13 amended: when no two polygons of a district share a canonical name
\* key, the minimal and the full table hold exactly one row per polygon, with
\* nulls where a theme has no record for the polygon
C13_OneRowPerCanonKey ==
    (pc = "preprocessed" /\ UniqueCanonKeys) =>
        /\ OneRowPerPolygon(pipeline_out.minimal)
        /\ OneRowPerPolygon(pipeline_out.merged)
        /\ NullWhereMissing

\* C13 witness: two polygons with distinct keys were preprocessed, one with a
\* park record and one without, and a venue record matched a polygon
C13_Witness ==
    /\ pc = "preprocessed"
    /\ UniqueCanonKeys
    /\ Len(Polygons) = 2
    /\ \E k, l \in DOMAIN pipeline_out.minimal.rows :
          /\ HasRecord(pipeline_out.parks, pipeline_out.minimal.rows[k])
          /\ pipeline_out.minimal.rows[k]["green_share"] # NaN
          /\ ~HasRecord(pipeline_out.parks, pipeline_out.minimal.rows[l])
    /\ \E k \in DOMAIN pipeline_out.merged.rows :
          HasRecord(pipeline_out.venF, pipeline_out.merged.rows[k])

\* the records of a theme table for the neighborhood of polygon i
RecordsOf(theme, i) ==
    { k \in DOMAIN theme.rows :
        /\ theme.rows[k]["district_id"] = Polygons[i].district_id
        /\ theme.rows[k]["neighborhood_canon"]
               = canon_nh(StrName(Polygons[i].neighborhood)) }

\* C14: each theme's table (mobility, parks, playgrounds, venues) holds
\* exactly one record for every polygon of the neighborhoods file, also for
\* the polygons no raw record of the theme names
C14_OneRecordPerNeighborhood ==
    (pc = "preprocessed" /\ UniqueCanonKeys) =>
        \A i \in DOMAIN Polygons :
            /\ Cardinality(RecordsOf(pipeline_out.mob, i)) = 1
            /\ Cardinality(RecordsOf(pipeline_out.parks, i)) = 1
            /\ Cardinality(RecordsOf(pipeline_out.plays, i)) = 1
            /\ Cardinality(RecordsOf(pipeline_out.venF, i)) = 1
            /\ Cardinality(RecordsOf(pipeline_out.venV, i)) = 1

\* C12: dissolve_by_district returns one polygon per district, whose
\* geometry is the union of the member neighborhoods' geometries and whose
\* area_km2 is the area of that union, whether or not the table given
\* carries an area_km2 column.
C12_DissolvedAreaRecomputed ==
    pc = "dissolved" =>
        LET polys == gdf_neighborhoods.rows
            area == [i \in DOMAIN polys |-> polys[i].geom_km2]
        IN  /\ Len(gdf_out.rows) =
                   Cardinality({ polys[i].district_id : i \in DOMAIN polys })
            /\ \A k \in DOMAIN gdf_out.rows :
                  LET m == Members(gdf_out.rows[k].district_id)
                  IN  /\ gdf_out.rows[k].geometry =
                             UNION { polys[i].geometry : i \in m }
                      /\ gdf_out.rows[k].area_km2 = SumFloat(area, m)


(***************************************************************************)
(* app.py: the runs of the script                                          *)
(***************************************************************************)
\* the most entities of a level
MaxEntities == 2

Levels == {"Neighborhoods", "Districts"}

\* the slider positions taken (the slider runs over 0..100)
Weights == {0, 50, 100}

\* the values of a metric column, the nulls last
MetricOrder == <<Num(0), Num(1), NaN>>

\* the table of the level (app.py lines 132-135 and 175-176)
g_of(lvl) == IF lvl = "Neighborhoods" THEN nei_wide ELSE dist_wide

\* the wide tables: the neighborhoods' has mobility_score, the districts' has
\* crimes_per_1000 and green_share. mobility_score and crimes_per_1000 are
\* listed ascending with the nulls last (the scores do not look at the order
\* of the rows); green_share has no null
InitApp ==
    /\ pc = "app"
    /\ \E n \in 1..MaxEntities :
          \E a \in { f \in [1..n -> DOMAIN MetricOrder] :
                        \A i, j \in 1..n : i < j => f[i] <= f[j] },
             b \in [1..n -> {1, 2}] :
             /\ nei_wide =
                    Frame(n, [c \in {"mobility_score"} |->
                                 [i \in 1..n |-> MetricOrder[a[i]]]])
             /\ dist_wide =
                    Frame(n, [c \in {"crimes_per_1000", "green_share"} |->
                                 [i \in 1..n |->
                                     IF c = "crimes_per_1000"
                                     THEN MetricOrder[a[i]] ELSE MetricOrder[b[i]]]])
    /\ level = "Neighborhoods"
    /\ chk = [label \in labels(level, nei_wide) |-> label \in defaults(level)]
    /\ slider = [label \in labels(level, nei_wide) |-> SliderDefault]
    /\ nei_result = NoResult
    /\ dist_result = NoResult
    /\ pressed_weights =
           [lvl \in Levels |-> [label \in labels(lvl, g_of(lvl)) |-> 0]]
    /\ IdleText
    /\ IdleScore
    /\ IdleBand
    /\ IdleMobility
    /\ IdlePipeline
    /\ IdleSchema
    /\ IdleSummary
    /\ IdlePoints
    /\ IdleVibrancy

\* one run of the script: the level's widgets are read and the level's branch
\* is run, with the Show button pressed or not
Rerun(lvl, enabled, importance, pressed) ==
    LET weights_raw == weight_ui(labels(lvl, g_of(lvl)), enabled, importance)
    IN  /\ level' = lvl
        /\ chk' = enabled
        /\ slider' = importance
        /\ IF lvl = "Neighborhoods"
           THEN /\ nei_result' = button_show(pressed, nei_result, lvl, nei_wide, weights_raw)
                /\ UNCHANGED dist_result
           ELSE /\ dist_result' = button_show(pressed, dist_result, lvl, dist_wide, weights_raw)
                /\ UNCHANGED nei_result
        /\ pressed_weights' =
               IF pressed THEN [pressed_weights EXCEPT ![lvl] = weights_raw]
               ELSE pressed_weights
        /\ UNCHANGED <<pc, nei_wide, dist_wide, textVars, scoreVars, bandVars,
                       mobVars, pipelineVars, schemaVars,
                   summaryVars, pointsVars, vibrancyVars>>

\* a checkbox is ticked or unticked; the slider of an unticked feature is not
\* drawn and starts again from its first position
Checkbox ==
    \E label \in DOMAIN chk :
        Rerun(level, [chk EXCEPT ![label] = ~chk[label]],
              [slider EXCEPT ![label] = SliderDefault], FALSE)

\* the slider of a ticked feature is moved
Slider ==
    \E label \in DOMAIN chk, v \in Weights :
        /\ chk[label]
        /\ v # slider[label]
        /\ Rerun(level, chk, [slider EXCEPT ![label] = v], FALSE)

\* the other level is picked: its widgets are drawn anew
Radio ==
    \E lvl \in Levels :
        /\ lvl # level
        /\ Rerun(lvl,
                 [label \in labels(lvl, g_of(lvl)) |-> label \in defaults(lvl)],
                 [label \in labels(lvl, g_of(lvl)) |-> SliderDefault], FALSE)

\* Show is pressed at neighborhood level
NeiShow ==
    /\ pc = "app"
    /\ level = "Neighborhoods"
    /\ Rerun(level, chk, slider, TRUE)

\* Show is pressed at district level
DistShow ==
    /\ pc = "app"
    /\ level = "Districts"
    /\ Rerun(level, chk, slider, TRUE)

NextApp ==
    \/ Checkbox
    \/ Slider
    \/ Radio
    \/ NeiShow
    \/ DistShow

SpecApp == InitApp /\ [][NextApp]_vars

\* the result the session state holds for a level, and the one on the screen
Result(lvl) == IF lvl = "Neighborhoods" THEN nei_result ELSE dist_result
Shown == Result(level)

\* the weights the widgets give now
CurrentWeights == weight_ui(labels(level, g_of(level)), chk, slider)

\* the features of positive weight
Selected(lvl, weights) ==
    SelectSeq(features(lvl, g_of(lvl)), LAMBDA f : weights[f.label] > 0)

NullAsZero(x) == IF isnan(x) THEN Num(0) ELSE x

RECURSIVE Total(_)
Total(xs) == IF xs = <<>> THEN Num(0) ELSE FAdd(Head(xs), Total(Tail(xs)))

\* the weighted sum of a level for given weights: over the features of
\* positive weight, the component times weight / 100, a null counting 0
WeightedSum(lvl, weights) ==
    LET fs == Selected(lvl, weights)
        components == Values([k \in DOMAIN fs |->
                          Values(component(lvl, g_of(lvl), fs[k]))])
    IN  [i \in 1..g_of(lvl).rows |->
            Total([k \in DOMAIN fs |->
                NullAsZero(FMul(components[k][i],
                                Rat(weights[fs[k].label], 100)))])]

\* C15: a Show press with no feature of positive weight gives the suitability
\* 0 for every entity, at both levels
C15_NothingSelectedZero ==
    \A lvl \in Levels :
        (/\ pc = "app"
         /\ Result(lvl).present
         /\ \A label \in DOMAIN pressed_weights[lvl] : pressed_weights[lvl][label] = 0) =>
            /\ Len(Result(lvl).suitability) = g_of(lvl).rows
            /\ \A i \in 1..g_of(lvl).rows : Result(lvl).suitability[i] = Num(0)

\* C15 witness: Show was pressed at both levels with no positive weight, at
\* district level with a feature ticked at weight 0
C15_Witness ==
    /\ pc = "app"
    /\ level = "Districts"
    /\ nei_result.present
    /\ dist_result.present
    /\ \A lvl \in Levels : \A label \in DOMAIN pressed_weights[lvl] :
          pressed_weights[lvl][label] = 0
    /\ \E label \in DOMAIN chk : chk[label] /\ slider[label] = 0

\* the weights with the weight of one feature doubled
Doubled(weights, label) == [weights EXCEPT ![label] = 2 * weights[label]]

\* C16: with one feature of positive weight w, 2w <= 100, a Show press at
\* weight 2w gives every entity twice the suitability; with several features
\* the suitability is the sum of the features' contributions, not divided by
\* the total weight
C16_LinearPlainSum ==
    \A lvl \in Levels :
        (pc = "app" /\ Result(lvl).present) =>
            LET w == pressed_weights[lvl]
                fs == Selected(lvl, w)
            IN  /\ Result(lvl).suitability = WeightedSum(lvl, w)
                /\ (Len(fs) = 1 /\ 2 * w[fs[1].label] <= 100) =>
                      \A i \in 1..g_of(lvl).rows :
                          button_show(TRUE, Result(lvl), lvl, g_of(lvl),
                                      Doubled(w, fs[1].label)).suitability[i]
                              = FMul(Num(2), Result(lvl).suitability[i])

\* C16 witness: a neighborhood got 50 from one feature at weight 50, and a
\* district 150 from two features of weights that sum to 150
C16_Witness ==
    /\ pc = "app"
    /\ nei_result.present
    /\ Len(Selected("Neighborhoods", pressed_weights["Neighborhoods"])) = 1
    /\ \E i \in DOMAIN nei_result.suitability : nei_result.suitability[i] = Num(50)
    /\ dist_result.present
    /\ Len(Selected("Districts", pressed_weights["Districts"])) = 2
    /\ \E i \in DOMAIN dist_result.suitability : dist_result.suitability[i] = Num(150)

\* for every entity the sum, over the features of positive weight, of score
\* times weight / 100
ContributionSum(lvl, weights, score(_)) ==
    LET fs == Selected(lvl, weights)
        scored == Values([k \in DOMAIN fs |-> Values(score(fs[k]))])
    IN  [i \in 1..g_of(lvl).rows |->
            Total([k \in DOMAIN fs |->
                NullAsZero(FMul(scored[k][i], Rat(weights[fs[k].label], 100)))])]

\* the column of a feature as the wide table stores it
Stored(lvl, f) == g_of(lvl).data[f.col]

\* the percentile score (p10 -> 0, p90 -> 100) of the stored column, the
\* column negated first when lower is better
Rescored(lvl, f) ==
    app_percentile_score(
        [i \in DOMAIN Stored(lvl, f) |->
            IF f.invert THEN FNeg(Stored(lvl, f)[i]) ELSE Stored(lvl, f)[i]],
        DefaultLo, DefaultHi)

\* C17 as stated: the contribution of a feature of positive weight is the
\* value stored in the wide table times weight / 100
C17_StoredScoreContribution ==
    \A lvl \in Levels :
        (pc = "app" /\ Result(lvl).present) =>
            Result(lvl).suitability =
                ContributionSum(lvl, pressed_weights[lvl], LAMBDA f : Stored(lvl, f))

\* C17 amended: the contribution of a feature of positive weight is the
\* percentile score the app computes over the stored column (negated first
\* when lower is better) times weight / 100
C17_RescoredContribution ==
    \A lvl \in Levels :
        (pc = "app" /\ Result(lvl).present) =>
            Result(lvl).suitability =
                ContributionSum(lvl, pressed_weights[lvl], LAMBDA f : Rescored(lvl, f))

\* C17 witness: Show was pressed with mobility_score at a positive weight and
\* a neighborhood's suitability is not its stored score times weight / 100
C17_Witness ==
    /\ pc = "app"
    /\ nei_result.present
    /\ pressed_weights["Neighborhoods"]["Mobility"] > 0
    /\ \E i \in DOMAIN nei_result.suitability :
          /\ ~isnan(nei_wide.data["mobility_score"][i])
          /\ nei_result.suitability[i] #
                 FMul(nei_wide.data["mobility_score"][i],
                      Rat(pressed_weights["Neighborhoods"]["Mobility"], 100))

\* C18 as stated: whatever was ticked, moved, switched or pressed, the
\* suitability on the screen is the weighted sum for the weights the widgets
\* give now
C18_ShownIsCurrent ==
    (pc = "app" /\ Shown.present) =>
        Shown.suitability = WeightedSum(level, CurrentWeights)

\* C18 amended: the suitability on the screen is the weighted sum for the
\* weights the widgets gave when Show was last pressed at the level, and
\* nothing is on the screen before Show was pressed at the level
C18_ShownIsLastPressed ==
    \A lvl \in Levels :
        pc = "app" =>
            IF Result(lvl).present
            THEN Result(lvl).suitability = WeightedSum(lvl, pressed_weights[lvl])
            ELSE /\ Result(lvl).suitability = <<>>
                 /\ \A label \in DOMAIN pressed_weights[lvl] :
                       pressed_weights[lvl][label] = 0

\* C18 witness: a slider was moved after Show was pressed, and the screen
\* holds the suitability of the weights pressed, not of the weights now
C18_Witness ==
    /\ pc = "app"
    /\ Shown.present
    /\ pressed_weights[level] # CurrentWeights
    /\ Shown.suitability = WeightedSum(level, pressed_weights[level])
    /\ Shown.suitability # WeightedSum(level, CurrentWeights)

\* C19: with one feature of positive weight, of two entities with values the
\* one with the better value (the lower one when lower is better, else the
\* higher one) never has the lower suitability
C19_BetterValueNotLower ==
    \A lvl \in Levels :
        (/\ pc = "app"
         /\ Result(lvl).present
         /\ Len(Selected(lvl, pressed_weights[lvl])) = 1) =>
            LET f == Selected(lvl, pressed_weights[lvl])[1]
                raw == Stored(lvl, f)
            IN  \A i, j \in 1..g_of(lvl).rows :
                    (/\ ~isnan(raw[i])
                     /\ ~isnan(raw[j])
                     /\ IF f.invert THEN FLt(raw[i], raw[j]) ELSE FGt(raw[i], raw[j])) =>
                        FGe(Result(lvl).suitability[i], Result(lvl).suitability[j])

\* C19 witness: Safety alone was shown, and the district with fewer crimes
\* has the higher suitability
C19_Witness ==
    /\ pc = "app"
    /\ dist_result.present
    /\ Len(Selected("Districts", pressed_weights["Districts"])) = 1
    /\ Selected("Districts", pressed_weights["Districts"])[1].label = "Safety"
    /\ \E i, j \in DOMAIN dist_result.suitability :
          /\ FLt(dist_wide.data["crimes_per_1000"][i], dist_wide.data["crimes_per_1000"][j])
          /\ FGt(dist_result.suitability[i], dist_result.suitability[j])


(***************************************************************************)
(* Calls on tables that lack columns                                       *)
(***************************************************************************)
\* the most columns a table lacks
MaxMissing == 1

\* the columns the first and the second table of the calls can have
FirstColumns ==
    {"district_id", "neighborhood_id", "neighborhood", "neighborhood_canon",
     "ubahn_stations", "bus_tram_stops", "total_stops", "n_venues",
     "n_cuisine_types", "size_sqm"}
SecondColumns ==
    {"district_id", "neighborhood_canon", "area_km2", "area_eff_km2", "lat", "lon"}

Lacking(columns) ==
    { columns \ dropped : dropped \in { d \in SUBSET columns : Cardinality(d) <= MaxMissing } }

InitSchema ==
    /\ pc = "tables"
    /\ arg_columns \in [first : Lacking(FirstColumns), second : Lacking(SecondColumns)]
    /\ raised = NoError
    /\ IdleText
    /\ IdleScore
    /\ IdleBand
    /\ IdleMobility
    /\ IdlePipeline
    /\ IdleApp
    /\ IdleSummary
    /\ IdlePoints
    /\ IdleVibrancy

Called(fn, exception) ==
    /\ pc = "tables"
    /\ raised' = exception
    /\ pc' = fn
    /\ UNCHANGED <<arg_columns, textVars, scoreVars, bandVars, mobVars,
                   pipelineVars, appVars, summaryVars, pointsVars, vibrancyVars>>

CallComputeParksLabels ==
    Called("compute_parks_labels", compute_parks_labels_columns(arg_columns.first))

CallComputeVibrancyScores ==
    Called("compute_vibrancy_scores",
           compute_vibrancy_scores_columns(arg_columns.first, arg_columns.second))

CallComputeMobilityLabels ==
    Called("compute_mobility_labels",
           compute_mobility_labels_columns(arg_columns.first, arg_columns.second))

CallAggregateMobilityToDistrict ==
    Called("aggregate_mobility_to_district",
           aggregate_mobility_to_district_columns(arg_columns.first, arg_columns.second))

NextSchema ==
    \/ CallComputeParksLabels
    \/ CallComputeVibrancyScores
    \/ CallComputeMobilityLabels
    \/ CallAggregateMobilityToDistrict

SpecSchema == InitSchema /\ [][NextSchema]_vars

\* the columns the function called reads
ColumnsRead(fn) ==
    CASE fn = "compute_parks_labels" ->
             [first |-> {"district_id", "neighborhood", "size_sqm"}, second |-> {}]
      [] fn = "compute_vibrancy_scores" ->
             [first |-> {"district_id", "neighborhood_canon", "n_venues", "n_cuisine_types"},
              second |-> {"district_id", "neighborhood_canon", "area_eff_km2"}]
      [] fn = "compute_mobility_labels" ->
             [first |-> {"district_id", "neighborhood_id", "neighborhood"},
              second |-> {"lat", "lon"}]
      [] fn = "aggregate_mobility_to_district" ->
             [first |-> {"district_id", "ubahn_stations", "bus_tram_stops", "total_stops"},
              second |-> {"district_id"} \cup
                         (IF "area_km2" \in arg_columns.second THEN {} ELSE {"area_eff_km2"})]
      [] OTHER -> [first |-> {}, second |-> {}]

\* the columns read that the tables lack
MissingColumns ==
    (ColumnsRead(pc).first \ arg_columns.first)
        \cup (ColumnsRead(pc).second \ arg_columns.second)

\* C20: a builder or aggregator called on tables that lack a column it reads
\* raises, from its own check before computing, a ValueError whose message
\* names the columns lacking
C20_SchemaErrorNamesMissing ==
    (pc \in {"compute_parks_labels", "compute_vibrancy_scores",
             "compute_mobility_labels", "aggregate_mobility_to_district"}
        /\ MissingColumns # {}) =>
        /\ raised.kind = "ValueError"
        /\ raised.at = "validation"
        /\ MissingColumns \subseteq raised.names

(***************************************************************************)
(* Further properties of the spatial join                                  *)
(***************************************************************************)
\* the polygons as compute_mobility_labels hands them to points_within
JoinPolygons ==
    [i \in DOMAIN gdf_neighborhoods.rows |->
        [poly_index |-> i - 1, geometry |-> gdf_neighborhoods.rows[i].geometry]]

\* the points of a table that lie inside some polygon
Inside(df) ==
    { j \in DOMAIN df :
        \E i \in DOMAIN gdf_neighborhoods.rows :
            <<df[j].lon, df[j].lat>> \in gdf_neighborhoods.rows[i].geometry }

\* the rows of the join of a table of points with the polygons
Joined(df) == points_within(JoinPolygons, to_points_gdf(df))

\* C21: the polygons being disjoint, the join holds each point at most once,
\* with the polygon that contains it; a point inside no polygon is not in the
\* join and the builder still returns its table; the counts of the
\* neighborhoods sum to the number of points inside some polygon
C21_PointAtMostOnce ==
    pc = "mobility" =>
        /\ DOMAIN mob_out = DOMAIN gdf_neighborhoods.rows
        /\ \A df \in {df_ubahn, df_bus_tram} :
              /\ \A j \in DOMAIN df :
                    /\ Cardinality({ r \in Joined(df) : r.pt = j })
                           = IF j \in Inside(df) THEN 1 ELSE 0
                    /\ \A r \in Joined(df) :
                          r.pt = j =>
                              <<df[j].lon, df[j].lat>>
                                  \in gdf_neighborhoods.rows[r.poly_index + 1].geometry
        /\ SumInt([i \in DOMAIN mob_out |-> mob_out[i].ubahn_stations], DOMAIN mob_out)
               = Cardinality(Inside(df_ubahn))
        /\ SumInt([i \in DOMAIN mob_out |-> mob_out[i].bus_tram_stops], DOMAIN mob_out)
               = Cardinality(Inside(df_bus_tram))

\* C21 witness: two polygons, one heavy-rail point inside a polygon and one
\* inside none
C21_Witness ==
    /\ pc = "mobility"
    /\ Len(gdf_neighborhoods.rows) = 2
    /\ Len(df_ubahn) = 2
    /\ Cardinality(Inside(df_ubahn)) = 1
    /\ \E i \in DOMAIN mob_out : mob_out[i].ubahn_stations = 1


\* ---------------------------------------------------------------------------
\* The caller's table across compute_area_km2
\* ---------------------------------------------------------------------------

\* C22: after compute_area_km2(gdf) returns, the caller's gdf has the same
\* columns and the same values as before the call
C22_CallerTableUnchanged ==
    [][(pc = "polygons" /\ pc' = "area") => gdf_neighborhoods' = gdf_neighborhoods]_vars


\* ---------------------------------------------------------------------------
\* notebook_utils.update_summary
\* ---------------------------------------------------------------------------

MaxKey == 2
MaxNewRows == 2
MaxSummaryRows == 4
MaxCalls == 3

\* key_cols of the calls
key_cols == <<"neighborhood_id">>

\* the label columns a summary carries besides the key
SummaryColumns == <<"mobility_label", "vibrancy_label">>

\* col + "_old", the name merge gives to a column of the stored table that
\* new_df carries too
Old ==
    [mobility_label |-> "mobility_label_old", vibrancy_label |-> "vibrancy_label_old"]

\* col.endswith("_old")
endswith_old(col) == \E base \in DOMAIN Old : Old[base] = col

\* col[:-4]
base_of(col) == CHOOSE base \in DOMAIN Old : Old[base] = col

\* to_csv(index=False): the header, and one line per row with the fields in
\* the order of the columns; a null is written as the empty field
to_csv(df) ==
    [exists |-> TRUE,
     header |-> df.columns,
     lines |-> [i \in DOMAIN df.rows |->
                   [j \in DOMAIN df.columns |->
                       IF df.columns[j] \in Range(key_cols) THEN df.rows[i][df.columns[j]]
                       ELSE IF df.rows[i][df.columns[j]] = NA THEN ""
                       ELSE df.rows[i][df.columns[j]]]]]

\* pd.read_csv: the empty field is read as null
read_csv(file) ==
    DataFrame(file.header,
              [i \in DOMAIN file.lines |->
                  [c \in Range(file.header) |->
                      LET field == file.lines[i][index_of(file.header, c)]
                      IN  IF c \in Range(key_cols) THEN field
                          ELSE IF field = "" THEN NA ELSE field]])

\* existing.merge(new, on=on, how="outer", suffixes=("_old", "")): the keys of
\* both tables in sorted order; for a key, every row of existing with every
\* row of new, or the rows of the one table with nulls for the other's columns
merge_outer(existing, new, on) ==
    LET left_others == SelectSeq(existing.columns, LAMBDA c : c \notin Range(on))
        right_others == SelectSeq(new.columns, LAMBDA c : c \notin Range(on))
        overlap == Range(left_others) \cap Range(right_others)
        left_names == [i \in DOMAIN left_others |->
                          IF left_others[i] \in overlap
                          THEN Old[left_others[i]] ELSE left_others[i]]
        site_of(r) == r[on[1]]
        at(df, k) == SelectSeq(df.rows, LAMBDA r : site_of(r) = k)
        joined(k, l, has_l, r, has_r) ==
            [c \in Range(on) \cup Range(left_names) \cup Range(right_others) |->
                IF c \in Range(on) THEN k
                ELSE IF c \in Range(left_names)
                THEN IF has_l THEN l[left_others[index_of(left_names, c)]] ELSE NA
                ELSE IF has_r THEN r[c] ELSE NA]
        rows_at(k) ==
            LET ls == at(existing, k)
                rs == at(new, k)
            IN  IF ls = <<>> THEN [j \in DOMAIN rs |-> joined(k, rs[j], FALSE, rs[j], TRUE)]
                ELSE IF rs = <<>>
                THEN [i \in DOMAIN ls |-> joined(k, ls[i], TRUE, ls[i], FALSE)]
                ELSE concat([i \in DOMAIN ls |->
                        [j \in DOMAIN rs |-> joined(k, ls[i], TRUE, rs[j], TRUE)]])
    IN  DataFrame(on \o left_names \o right_others,
                  concat([k \in 1..MaxKey |-> rows_at(k)]))

\* this.combine_first(other): the value of this, and where that is null the
\* value of other
combine_first(this, other) == IF this = NA THEN other ELSE this

\* the loop of update_summary over the columns of merged: a column col that
\* ends in "_old" and whose base is a column too fills the nulls of the base
\* and is dropped
RECURSIVE fill_from_old(_, _)
fill_from_old(merged, cols) ==
    IF cols = <<>> THEN merged
    ELSE LET col == Head(cols)
         IN  IF endswith_old(col) /\ base_of(col) \in Range(merged.columns)
             THEN LET base == base_of(col)
                      kept == SelectSeq(merged.columns, LAMBDA c : c # col)
                  IN  fill_from_old(
                          DataFrame(kept,
                              [i \in DOMAIN merged.rows |->
                                  [c \in Range(kept) |->
                                      IF c = base
                                      THEN combine_first(merged.rows[i][base],
                                                         merged.rows[i][col])
                                      ELSE merged.rows[i][c]]]),
                          Tail(cols))
             ELSE fill_from_old(merged, Tail(cols))

\* notebook_utils.update_summary: the table written to summary_path
update_summary(df, file) ==
    LET existing == IF file.exists THEN read_csv(file) ELSE DataFrame(key_cols, <<>>)
        merged == merge_outer(existing, df, key_cols)
    IN  fill_from_old(merged, merged.columns)

\* the tables passed as new_df: the key and some of the label columns
LabelValues == {NA, "low", "high"}

\* a call upserts the label of one theme
ColumnChoices == { <<SummaryColumns[i]>> : i \in DOMAIN SummaryColumns }

NewRows(cols) ==
    { [c \in Range(key_cols \o cols) |-> IF c = key_cols[1] THEN k ELSE v[c]] :
        k \in 1..MaxKey, v \in [Range(cols) -> LabelValues] }

NewTables ==
    UNION { { DataFrame(key_cols \o cols, rows) :
                rows \in SeqsUpTo(NewRows(cols), MaxNewRows) } : cols \in ColumnChoices }

InitSummary ==
    /\ pc = "summary_path"
    /\ IdleSummary
    /\ IdleText
    /\ IdleScore
    /\ IdleBand
    /\ IdleMobility
    /\ IdlePipeline
    /\ IdleApp
    /\ IdleSchema
    /\ IdlePoints
    /\ IdleVibrancy

UpdateSummary ==
    /\ pc \in {"summary_path", "update_summary"}
    /\ calls < MaxCalls
    /\ calls' = calls + 1
    /\ \E df \in NewTables :
          \E merged \in {update_summary(df, summary_csv)} :
              /\ Len(merged.rows) <= MaxSummaryRows
              /\ summary_csv' = to_csv(merged)
              /\ new_df' = df
    /\ pc' = "update_summary"
    /\ UNCHANGED <<textVars, scoreVars, bandVars, mobVars, pipelineVars, appVars,
                   schemaVars, pointsVars, vibrancyVars>>

NextSummary == UpdateSummary

SpecSummary == InitSummary /\ [][NextSummary]_vars

\* the rows of a table that carry key k
RowsAt(df, k) == SelectSeq(df.rows, LAMBDA r : r[key_cols[1]] = k)

\* the label columns of a table
Labels(df) == Range(df.columns) \ Range(key_cols)

\* C23: a call with the new_df of the call before it leaves the file as it
\* is; a value of new_df for a key and a column the stored summary carries
\* replaces the stored value; the rows and the columns that only the stored
\* summary carries are kept
C23_IdempotentUpsert ==
    [][pc' = "update_summary" =>
        LET stored == read_csv(summary_csv)
            after == read_csv(summary_csv')
        IN  /\ (pc = "update_summary" /\ new_df' = new_df) => summary_csv' = summary_csv
            /\ summary_csv.exists =>
                 /\ \A k \in 1..MaxKey, c \in Labels(stored) \cap Labels(new_df') :
                       (RowsAt(stored, k) # <<>> /\ RowsAt(new_df', k) # <<>>) =>
                           { r[c] : r \in Range(RowsAt(after, k)) }
                               = { r[c] : r \in Range(RowsAt(new_df', k)) }
                 /\ Range(stored.columns) \subseteq Range(after.columns)
                 /\ \A k \in 1..MaxKey :
                       RowsAt(new_df', k) = <<>> =>
                           [i \in DOMAIN RowsAt(stored, k) |->
                               [c \in Range(stored.columns) |-> RowsAt(after, k)[i][c]]]
                               = RowsAt(stored, k)]_vars


\* ---------------------------------------------------------------------------
\* The ends of the percentile scale
\* ---------------------------------------------------------------------------

\* the values at or below the 10th percentile score 0, those at or above the
\* 90th score 100
EndsScored(out) ==
    LET p_lo == nanpercentile(series, DefaultLo)
        p_hi == nanpercentile(series, DefaultHi)
    IN  \A i \in DOMAIN series :
            /\ (~isnan(series[i]) /\ FLe(series[i], p_lo)) => out[i] = Num(0)
            /\ (~isnan(series[i]) /\ FGe(series[i], p_hi)) => out[i] = Num(100)

\* the 10th and the 90th percentile of the series differ
PercentilesDiffer ==
    /\ \E i \in DOMAIN series : ~isnan(series[i])
    /\ nanpercentile(series, DefaultLo) # nanpercentile(series, DefaultHi)

\* the 90th percentile is at least 1e-9 above the 10th
PercentilesApart ==
    /\ \E i \in DOMAIN series : ~isnan(series[i])
    /\ FGe(FSub(nanpercentile(series, DefaultHi), nanpercentile(series, DefaultLo)), Eps)

\* C24 as stated: when the 10th and the 90th percentile differ, a value at or
\* below the 10th scores exactly 0 and a value at or above the 90th exactly 100
C24_EndsScoredWhenDiffer ==
    /\ (pc = "scores" /\ PercentilesDiffer) => EndsScored(scores)
    /\ (pc = "app_scores" /\ PercentilesDiffer) => EndsScored(app_scores)

\* C24 as amended: when the 90th percentile is at least 1e-9 above the 10th, a
\* value at or below the 10th scores exactly 0 and a value at or above the 90th
\* exactly 100; the densities 0 and 1.7 score 0 and 100
C24_EndsScoredWhenApart ==
    /\ (pc = "scores" /\ PercentilesApart) => EndsScored(scores)
    /\ (pc = "app_scores" /\ PercentilesApart) => EndsScored(app_scores)
    /\ (pc = "scores" /\ series = <<Num(0), Rat(17, 10)>>) => scores = <<Num(0), Num(100)>>

C24_Witness ==
    /\ pc = "scores"
    /\ series = <<Num(0), Rat(17, 10)>>
    /\ PercentilesApart
    /\ scores = <<Num(0), Num(100)>>

\* ---------------------------------------------------------------------------
\* The effective area of a district
\* ---------------------------------------------------------------------------

\* C25: the area_eff_km2 of a district is max(sum of the members' area_km2,
\* 0.20): the areas are summed first and the sum is floored
C25_DistrictAreaFlooredAfterSum ==
    (pc = "district_mobility" /\ dist_out.raised = "") =>
        LET akm2 == [i \in DOMAIN gdf_neighborhoods.rows |->
                        gdf_neighborhoods.rows[i].area_km2]
        IN  \A k \in DOMAIN dist_out.rows :
                dist_out.rows[k].area_eff_km2 =
                    clip_lower(SumFloat(akm2, Members(dist_out.rows[k].district_id)),
                               AreaFloor)

\* ---------------------------------------------------------------------------
\* compute_vibrancy_scores applied to a features table and an area table
\* ---------------------------------------------------------------------------

MaxVenueNei == 3

\* venue counts under and at the eligibility threshold of 10
VenueCounts == {Num(5), Num(10)}

\* numbers of cuisine types
CuisineCounts == {Num(1), Num(2)}

\* effective areas (km2): with 10 venues the density is above or below the
\* eligibility threshold of 2 per km2
EffectiveAreas == {Rat(1, 2), Num(1), Num(10)}

VenueNeiChoices ==
    [n_venues : VenueCounts, n_cuisine_types : CuisineCounts, area_eff_km2 : EffectiveAreas]

InitVibrancy ==
    /\ pc = "features"
    /\ \E a \in SeqsUpTo(VenueNeiChoices, MaxVenueNei) :
          /\ venues_features =
                DataFrame(KeyColumns \o <<"n_venues", "n_cuisine_types">>,
                    [i \in DOMAIN a |->
                        [district_id |-> 1,
                         neighborhood_canon |-> canon_nh(StrName(NeighborhoodName(i))),
                         n_venues |-> a[i].n_venues,
                         n_cuisine_types |-> a[i].n_cuisine_types]])
          /\ nei_area =
                DataFrame(KeyColumns \o <<"area_eff_km2">>,
                    [i \in DOMAIN a |->
                        [district_id |-> 1,
                         neighborhood_canon |-> canon_nh(StrName(NeighborhoodName(i))),
                         area_eff_km2 |-> a[i].area_eff_km2]])
    /\ vibrancy_out = [columns |-> <<>>, rows |-> <<>>]
    /\ IdleText
    /\ IdleScore
    /\ IdleBand
    /\ IdleMobility
    /\ IdlePipeline
    /\ IdleApp
    /\ IdleSchema
    /\ IdleSummary
    /\ IdlePoints

ComputeVibrancyScores ==
    /\ pc = "features"
    /\ vibrancy_out' = compute_vibrancy_scores(venues_features, nei_area)
    /\ pc' = "vibrancy"
    /\ UNCHANGED <<venues_features, nei_area, textVars, scoreVars, bandVars, mobVars,
                   pipelineVars, appVars, schemaVars, summaryVars, pointsVars>>

NextVibrancy == ComputeVibrancyScores

SpecVibrancy == InitVibrancy /\ [][NextVibrancy]_vars

\* the flag (n_venues >= 10) & (venues_per_km2 >= 2.0) of a row
Eligible(r) ==
    /\ FGe(r["n_venues"], EligibleVenues)
    /\ FGe(r["venues_per_km2"], EligibleDensity)

\* C26: VV_index is 0.65 * V_score + 0.35 * C_score, the vibrancy label is the
\* tercile label of VV_index, and the eligibility flag is recorded without
\* changing the label: rows with the same VV_index have the same label,
\* eligible or not
C26_LabelFromIndexOnly ==
    pc = "vibrancy" =>
        LET out == vibrancy_out.rows
        IN  /\ DOMAIN out = DOMAIN venues_features.rows
            /\ \A i \in DOMAIN out :
                  /\ out[i]["VV_index"] =
                         FAdd(FMul(Rat(65, 100), out[i]["V_score"]),
                              FMul(Rat(35, 100), out[i]["C_score"]))
                  /\ out[i]["vibrancy_eligible"] = Eligible(out[i])
            /\ Column(out, "vibrancy_label") =
                   tercile_labels(Column(out, "VV_index"), <<"vibrant", "average", "sparse">>)
            /\ \A i, j \in DOMAIN out :
                  out[i]["VV_index"] = out[j]["VV_index"] =>
                      out[i]["vibrancy_label"] = out[j]["vibrancy_label"]

\* 10 venues on 1 km2 and 5 venues on 0.5 km2, both with 2 cuisine types: the
\* same VV_index and the label "vibrant" for both, though only the first is
\* eligible
C26_Witness ==
    /\ pc = "vibrancy"
    /\ Len(vibrancy_out.rows) = 3
    /\ vibrancy_out.rows[1]["vibrancy_eligible"]
    /\ ~vibrancy_out.rows[2]["vibrancy_eligible"]
    /\ vibrancy_out.rows[1]["VV_index"] = vibrancy_out.rows[2]["VV_index"]
    /\ vibrancy_out.rows[1]["vibrancy_label"] = "vibrant"
    /\ vibrancy_out.rows[2]["vibrancy_label"] = "vibrant"
    /\ vibrancy_out.rows[3]["vibrancy_label"] = "sparse"

\* ---------------------------------------------------------------------------
\* Ratios with a zero denominator
\* ---------------------------------------------------------------------------

\* the ratio of a row is no infinity, and is null with the label "average"
\* where the denominator is zero
RatioGuarded(r, denominator) ==
    /\ r.value.kind # "inf"
    /\ r[denominator] = Num(0) => (isnan(r.value) /\ r.label = "average")

MaxColumns == 3
MaxPointRows == 2

\* c.lower() for the column names the tables are drawn with
lower ==
    [lat |-> "lat", Lat |-> "lat", LATITUDE |-> "latitude", Y |-> "y",
     lon |-> "lon", Lng |-> "lng", LONG |-> "long", Longitude |-> "longitude",
     x |-> "x", name |-> "name", Lats |-> "lats"]

LatAliases == {"lat", "latitude", "y"}
LonAliases == {"lon", "lng", "long", "longitude", "x"}

NoColumns == [found |-> FALSE, lat |-> "", lon |-> ""]

\* the aliases matched as they are spelt
_infer_lat_lon_columns_exact(columns) ==
    LET cand_lats == SelectSeq(columns, LAMBDA c : c \in LatAliases)
        cand_lons == SelectSeq(columns, LAMBDA c : c \in LonAliases)
    IN  IF cand_lats # <<>> /\ cand_lons # <<>>
        THEN [found |-> TRUE, lat |-> cand_lats[1], lon |-> cand_lons[1]]
        ELSE NoColumns

\* geo._infer_lat_lon_columns: the first column whose lowered name is a
\* latitude alias and the first whose lowered name is a longitude alias
_infer_lat_lon_columns(columns) ==
    LET cand_lats == SelectSeq(columns, LAMBDA c : lower[c] \in LatAliases)
        cand_lons == SelectSeq(columns, LAMBDA c : lower[c] \in LonAliases)
    IN  IF cand_lats # <<>> /\ cand_lons # <<>>
        THEN [found |-> TRUE, lat |-> cand_lats[1], lon |-> cand_lons[1]]
        ELSE NoColumns

\* geo.to_points_gdf on a table df = [geometry, columns, rows]: geometry says
\* whether df is a GeoDataFrame with a geometry, a DataFrame with a column
\* "geometry" of geometries, one with a column "geometry" of text, or neither
to_points_gdf_columns(df) ==
    IF df.geometry \in {"GeoDataFrame", "column"}
    THEN [raised |-> "", geometry |-> [j \in DOMAIN df.rows |-> df.rows[j].geometry]]
    ELSE LET ll == _infer_lat_lon_columns(df.columns)
         IN  IF ~ll.found THEN [raised |-> "ValueError", geometry |-> <<>>]
             ELSE [raised |-> "",
                   geometry |-> [j \in DOMAIN df.rows |->
                                    <<df.rows[j][ll.lon], df.rows[j][ll.lat]>>]]

\* the column names of a table: up to MaxColumns of the names, none twice
ColumnLists ==
    { cols \in SeqsUpTo(DOMAIN lower, MaxColumns) :
        \A i, j \in DOMAIN cols : i # j => cols[i] # cols[j] }

\* row j holds 10 * j + i in its i-th column, and a geometry of its own
PointRow(cols, j) ==
    [c \in Range(cols) \cup {"geometry"} |->
        IF c = "geometry" THEN <<0 - j, 0 - j>> ELSE 10 * j + index_of(cols, c)]

InitPoints ==
    /\ pc = "points"
    /\ \E cols \in ColumnLists, n \in 0..MaxPointRows,
          geometry \in {"none", "text", "column", "GeoDataFrame"} :
          points_df = [geometry |-> geometry, columns |-> cols,
                       rows |-> [j \in 1..n |-> PointRow(cols, j)]]
    /\ points_out = [raised |-> "", geometry |-> <<>>]
    /\ IdleText
    /\ IdleScore
    /\ IdleBand
    /\ IdleMobility
    /\ IdlePipeline
    /\ IdleApp
    /\ IdleSchema
    /\ IdleSummary
    /\ IdleVibrancy

ToPointsGdf ==
    /\ pc = "points"
    /\ points_out' = to_points_gdf_columns(points_df)
    /\ pc' = "to_points_gdf"
    /\ UNCHANGED <<points_df, textVars, scoreVars, bandVars, mobVars, pipelineVars,
                   appVars, schemaVars, summaryVars, vibrancyVars>>

NextPoints == ToPointsGdf

SpecPoints == InitPoints /\ [][NextPoints]_vars

HasGeometry == points_df.geometry \in {"GeoDataFrame", "column"}

\* the columns whose name is, in any letter case, one of the aliases
AliasColumns(aliases) ==
    { i \in DOMAIN points_df.columns :
        \E a \in aliases : lower[points_df.columns[i]] = a }

\* the first of a non-empty set of column positions
FirstOf(S) == points_df.columns[CHOOSE i \in S : \A k \in S : i <= k]

\* C28: to_points_gdf raises the ValueError exactly when the table has no
\* geometry and no column is a latitude alias or no column is a longitude
\* alias, the letter case of the names put aside; with no geometry and both
\* present it returns one point per row, (longitude, latitude)
C28_FailsExactlyWithoutAliases ==
    pc = "to_points_gdf" =>
        LET lats == AliasColumns({"lat", "latitude", "y"})
            lons == AliasColumns({"lon", "lng", "long", "longitude", "x"})
        IN  /\ points_out.raised = "ValueError" <=>
                   (~HasGeometry /\ (lats = {} \/ lons = {}))
            /\ points_out.raised \in {"", "ValueError"}
            /\ (~HasGeometry /\ lats # {} /\ lons # {}) =>
                   /\ DOMAIN points_out.geometry = DOMAIN points_df.rows
                   /\ \A j \in DOMAIN points_df.rows :
                         points_out.geometry[j] =
                             <<points_df.rows[j][FirstOf(lons)],
                               points_df.rows[j][FirstOf(lats)]>>

\* columns LATITUDE, name, Lng: the points are (Lng, LATITUDE)
C28_Witness ==
    /\ pc = "to_points_gdf"
    /\ points_df.geometry = "none"
    /\ points_df.columns = <<"LATITUDE", "name", "Lng">>
    /\ points_out.raised = ""
    /\ points_out.geometry = <<<<13, 11>>, <<23, 21>>>>

\* ---------------------------------------------------------------------------
\* The range of the suitability
\* ---------------------------------------------------------------------------

\* the sum of the weights of the features of fs
RECURSIVE WeightSum(_, _)
WeightSum(weights, fs) ==
    IF fs = <<>> THEN 0 ELSE weights[Head(fs).label] + WeightSum(weights, Tail(fs))

\* C29: after a Show press with a feature of positive weight the suitability
\* of every entity is a number from 0 to the sum of the weights of the
\* selected features; a selected feature whose value is null for the entity
\* contributes 0, so the suitability is at most the sum of the other weights
C29_SuitabilityInRange ==
    \A lvl \in Levels :
        (/\ pc = "app"
         /\ Result(lvl).present
         /\ Selected(lvl, pressed_weights[lvl]) # <<>>) =>
            LET w == pressed_weights[lvl]
                fs == Selected(lvl, w)
            IN  \A i \in 1..g_of(lvl).rows :
                    LET x == Result(lvl).suitability[i]
                        valued == SelectSeq(fs, LAMBDA f : ~isnan(Stored(lvl, f)[i]))
                    IN  /\ isfinite(x)
                        /\ FLe(Num(0), x)
                        /\ FLe(x, Num(WeightSum(w, fs)))
                        /\ FLe(x, Num(WeightSum(w, valued)))

\* C29 witness: Safety and another district feature were shown at weights
\* that sum to 150; a district with no crime figure has a positive
\* suitability, all of it from the other feature
C29_Witness ==
    /\ pc = "app"
    /\ dist_result.present
    /\ Len(Selected("Districts", pressed_weights["Districts"])) = 2
    /\ pressed_weights["Districts"]["Safety"] > 0
    /\ WeightSum(pressed_weights["Districts"],
                 Selected("Districts", pressed_weights["Districts"])) = 150
    /\ \E i \in DOMAIN dist_result.suitability :
          /\ isnan(dist_wide.data["crimes_per_1000"][i])
          /\ FGt(dist_result.suitability[i], Num(0))
          /\ FLe(dist_result.suitability[i],
                 Num(150 - pressed_weights["Districts"]["Safety"]))


\* ---------------------------------------------------------------------------
\* The venue columns of the full table and their readable names
\* ---------------------------------------------------------------------------

\* pipeline.READABLE_RENAMES, the venue columns
READABLE_RENAMES ==
    [n_venues |-> "Venues",
     venues_per_km2 |-> "Venues density (/km2)",
     n_cuisine_types |-> "Cuisine types (national)",
     V_score |-> "V score (0-100)",
     C_score |-> "C score (0-100)",
     VV_index |-> "Vibrancy index (0-100)",
     vibrancy_label |-> "Vibrancy label"]

\* pipeline.make_readable_columns, the names of the columns: df.rename gives a
\* column that is a key of READABLE_RENAMES its readable name and leaves the
\* other columns their names
make_readable_columns(columns) ==
    [i \in DOMAIN columns |->
        IF columns[i] \in DOMAIN READABLE_RENAMES
        THEN READABLE_RENAMES[columns[i]] ELSE columns[i]]

\* the number of columns of a name
Occurrences(columns, c) == Cardinality({ i \in DOMAIN columns : columns[i] = c })

\* C30: the full table of run_all_preprocessing has each venue metric column
\* once under its own name, and make_readable_columns gives each its
\* readable name
C30_VenueColumnsOnce ==
    pc = "preprocessed" =>
        \A c \in DOMAIN READABLE_RENAMES :
            /\ Occurrences(pipeline_out.merged.columns, c) = 1
            /\ Occurrences(make_readable_columns(pipeline_out.merged.columns),
                           READABLE_RENAMES[c]) = 1
====
